---- MODULE Spec2Model ----
(***************************************************************************)
(* Model of the execution engine of the Spotify assistant:                 *)
(*   - RouterAgent._build_execution_plan   (src/src/llm/agents/router.py)  *)
(*   - Orchestrator._execute_plan_parallel (src/src/llm/orchestrator.py)   *)
(*   - GraphRAGAgent generate/execute/refine graph                         *)
(*                                         (src/src/llm/agents/graph_rag.py)*)
(*   - SpotifyAgent.query                  (src/src/llm/agents/spotify.py) *)
(*   - SpotifyOAuthHandler                 (src/src/auth/oauth_handler.py) *)
(* Strings are sequences of string tokens; Python's None is the empty      *)
(* sequence where a string is optional and NoDep where an index is.        *)
(***************************************************************************)
EXTENDS Integers, Sequences, FiniteSets, TLC

VARIABLES
    execution_plan,     \* the List[ExecutionStep] handed to _execute_plan_parallel
    mainPc,             \* position of the calling thread
    mainIdx,            \* loop index of the calling thread (1-based into the plan)
    step_futures,       \* step index -> Future, as a function on the submitted keys
    dep_future,         \* step index -> step index of the Future captured as df, or NoDep
    pc,                 \* step index -> position of that step's run_step
    lock,               \* holders of threading.Lock (a set, so that exclusion is checkable)
    completed_results,  \* the shared dict step index -> StepResult
    results_snapshot,   \* step index -> the dict copied by that unit
    context,            \* step index -> context string built for the resolver call
    invoked,            \* step index -> number of resolver invocations
    returned,           \* step index -> sequence of Results the resolver returned
    all_results,        \* the list built by the collection loop
    ret,                \* the list returned by _execute_plan_parallel
    rag,                \* GraphRAGState plus the call counters of one GraphRAGAgent.query
    sp,                 \* the locals of one SpotifyAgent.query plus its call counters
    oauth,              \* a SpotifyOAuthHandler and the token cache files on disk
    orch,               \* the locals of one Orchestrator.query plus its call counters
    router,             \* the locals of one RouterAgent._build_execution_plan
    parser              \* the locals of one SpotifyParser._enrich_with_spotify_data

schedVars == <<execution_plan, mainPc, mainIdx, step_futures, dep_future, pc, lock,
               completed_results, results_snapshot, context, invoked, returned,
               all_results, ret>>
vars == <<execution_plan, mainPc, mainIdx, step_futures, dep_future, pc, lock,
          completed_results, results_snapshot, context, invoked, returned,
          all_results, ret, rag, sp, oauth, orch, router, parser>>

\* ---------------------------------------------------------------- bounds
MaxSteps == 3
MaxAnySteps == 2
MaxQuerySteps == 2
MaxSubQueries == 3
MaxShort == 2
MaxOver == 2
MaxIrregular == 2
MaxRecords == 1
MaxCalls == 2
MaxTools == 2
MaxItems == 2

MaxData == 25
MaxPaths == 3

\* spotify.py line 330: max_followups
MaxFollowups == 10

\* orchestrator.py line 78: data[:10]
MaxContextItems == 10
ChunkSize == 50

\* ---------------------------------------------------------------- values
NoDep == 0 - 1
NoneStr == <<>>
Routes == {"graph_rag", "spotify"}
EmptyDict == [k \in {} |-> 0]

Min(a, b) == IF a < b THEN a ELSE b
Last(seq) == seq[Len(seq)]

QueryText(i) == <<"q" \o ToString(i)>>
Record(k) == "rec" \o ToString(k)
Records(n) == [k \in 1..n |-> Record(k)]

\* QueryResult and StepResult of schemas/state_schemas.py
QueryResult(success, data, interpretation, cypher_used) ==
    [success |-> success, data |-> data, interpretation |-> interpretation,
     cypher_used |-> cypher_used]

StepResult(step, query, route, result, context_used) ==
    [step |-> step, query |-> query, route |-> route, result |-> result,
     context_used |-> context_used]

\* ------------------------------------------- RouterAgent._build_execution_plan
ExecutionStep(step, query, route, depends_on) ==
    [step |-> step, query |-> query, route |-> route, depends_on |-> depends_on]

\* one run of the inner for loop, from position i, over <<plan, executed>>
RECURSIVE PlanPass(_, _, _, _)
PlanPass(sub_queries, i, plan, executed) ==
    IF i > Len(sub_queries) THEN <<plan, executed>>
    ELSE LET sq == sub_queries[i]
             dep == sq.depends_on
         IN IF (i - 1) \in executed
            THEN PlanPass(sub_queries, i + 1, plan, executed)
            ELSE IF dep = NoDep \/ dep \in executed
                 THEN PlanPass(sub_queries, i + 1,
                               Append(plan, ExecutionStep(Len(plan), sq.cleaned_text,
                                                          sq.route, dep)),
                               executed \cup {i - 1})
                 ELSE PlanPass(sub_queries, i + 1, plan, executed)

\* the while loop leaves only when every sub-query is executed; a pass that
\* executes nothing repeats forever
RECURSIVE PlanTerminatesFrom(_, _, _)
PlanTerminatesFrom(sub_queries, plan, executed) ==
    IF Cardinality(executed) >= Len(sub_queries) THEN TRUE
    ELSE LET p == PlanPass(sub_queries, 1, plan, executed)
         IN IF p[2] = executed THEN FALSE
            ELSE PlanTerminatesFrom(sub_queries, p[1], p[2])

PlanTerminates(sub_queries) == PlanTerminatesFrom(sub_queries, <<>>, {})

RECURSIVE BuildPlanFrom(_, _, _)
BuildPlanFrom(sub_queries, plan, executed) ==
    IF Cardinality(executed) >= Len(sub_queries) THEN plan
    ELSE LET p == PlanPass(sub_queries, 1, plan, executed)
         IN BuildPlanFrom(sub_queries, p[1], p[2])

BuildExecutionPlan(sub_queries) == BuildPlanFrom(sub_queries, <<>>, {})

\* the classified sub-query lists of at most MaxSteps entries
SubQuery(i, route, depends_on) ==
    [cleaned_text |-> QueryText(i), route |-> route, depends_on |-> depends_on]

\* the route classifications tried: the two routes alternate along the list,
\* starting with either
RouteAssignments(n) ==
    { [i \in 1..n |-> IF i % 2 = 1 THEN a ELSE b] :
        <<a, b>> \in {<<"graph_rag", "spotify">>, <<"spotify", "graph_rag">>} }

SubQueryLists ==
    UNION { { [i \in 1..n |-> SubQuery(i - 1, r[i], d[i])] :
                r \in RouteAssignments(n), d \in [1..n -> {NoDep} \cup (0..(n - 1))] }
            : n \in 1..MaxSteps }

RouterPlans == { BuildExecutionPlan(sq) : sq \in { s \in SubQueryLists : PlanTerminates(s) } }

\* -------------------------------------------- Orchestrator._get_context_for_step
JsonDumps(items) == <<"[">> \o items \o <<"]">>

Join(parts) ==
    IF Len(parts) = 1 THEN parts[1]
    ELSE parts[1] \o <<"\n">> \o parts[2] \o <<"\n">> \o parts[3]

\* a builder that lists every record
ItemsToIncludeAll(data) == data

\* line 78: items_to_include = data[:10]
ItemsToInclude(data) == SubSeq(data, 1, Min(Len(data), MaxContextItems))

\* a builder that refuses the result of a failed parent
GetContextSkippingFailed(step, completed) ==
    LET depends_on == step.depends_on
    IN IF depends_on = NoDep THEN NoneStr
       ELSE IF depends_on \in DOMAIN completed
            THEN IF completed[depends_on].result.success
                 THEN <<"Previous result: ">> \o completed[depends_on].result.interpretation
                 ELSE NoneStr
            ELSE NoneStr

\* a builder that reads the first result of the store, whoever published it
GetContextFromFirstResult(step, completed) ==
    IF step.depends_on = NoDep \/ DOMAIN completed = {} THEN NoneStr
    ELSE LET first == CHOOSE d \in DOMAIN completed : \A e \in DOMAIN completed : d <= e
         IN <<"Previous result: ">> \o completed[first].result.interpretation

\* lines 59-84
GetContextForStep(step, completed) ==
    LET depends_on == step.depends_on
    IN IF depends_on = NoDep THEN NoneStr
       ELSE IF depends_on \in DOMAIN completed
            THEN LET result == completed[depends_on]
                     interpretation == result.result.interpretation
                     data == result.result.data
                     first_part == <<"Previous result: ">> \o interpretation
                 IN IF Len(data) > 0
                    THEN Join(<< first_part,
                                 <<"Data (", ToString(Len(data)), " total items):">>,
                                 JsonDumps(ItemsToInclude(data)) >>)
                    ELSE Join(<<first_part>>)
            ELSE NoneStr

\* ------------------------------------------ Orchestrator._execute_plan_parallel
N == Len(execution_plan)
StepIds == { execution_plan[k].step : k \in 1..N }
StepOf(i) == CHOOSE s \in { execution_plan[k] : k \in 1..N } : s.step = i

Future(state, result, exception) ==
    [state |-> state, result |-> result, exception |-> exception]
PendingFuture == Future("pending", <<>>, NoneStr)

\* a Future that is never done when its unit raised
FutureDoneOnlyWithResult(f) == f.state = "result"

\* Future.done(): the unit returned or raised
FutureDone(f) == f.state \in {"result", "exception"}

\* what a resolver (GraphRAGAgent.query or SpotifyAgent.query) can hand back
ResolverResult(step, success, n) ==
    QueryResult(success, Records(n),
                <<(IF success THEN "answer" ELSE "failed") \o ToString(step.step)>>,
                IF step.route = "graph_rag" THEN <<"cypher">> ELSE NoneStr)
ErrorText(i) == <<"boom" \o ToString(i)>>

\* a lock that never excludes anyone
LockIgnored == TRUE

LockFree == lock = {}

SchedInitOver(plans) ==
    /\ execution_plan \in plans
    /\ mainPc = "submit"
    /\ mainIdx = 1
    /\ step_futures = EmptyDict
    /\ dep_future = [i \in StepIds |-> NoDep]
    /\ pc = [i \in StepIds |-> "unsubmitted"]
    /\ lock = {}
    /\ completed_results = EmptyDict
    /\ results_snapshot = [i \in StepIds |-> EmptyDict]
    /\ context = [i \in StepIds |-> NoneStr]
    /\ invoked = [i \in StepIds |-> 0]
    /\ returned = [i \in StepIds |-> <<>>]
    /\ all_results = <<>>
    /\ ret = <<>>

SchedInit == SchedInitOver(RouterPlans)

\* a closure that looks its dependency up by index when it runs
DepFutureByIndex(dep_idx, futures) == dep_idx

\* line 99: step_futures.get(dep_idx) if dep_idx is not None else None, taken
\* when the step is submitted; the Future is named by the step that owns it
DepFuture(dep_idx, futures) ==
    IF dep_idx # NoDep /\ dep_idx \in DOMAIN futures THEN dep_idx ELSE NoDep

\* lines 97-99 and 119: one iteration of the submission loop
Submit ==
    /\ mainPc = "submit"
    /\ LET step == execution_plan[mainIdx]
           dep_idx == step.depends_on
           df == DepFuture(dep_idx, step_futures)
       IN /\ dep_future' = [dep_future EXCEPT ![step.step] = df]
          /\ step_futures' = (step.step :> PendingFuture) @@ step_futures
          /\ pc' = [pc EXCEPT ![step.step] = "waiting"]
    /\ IF mainIdx = N
       THEN mainPc' = "collect" /\ mainIdx' = 1
       ELSE mainPc' = "submit" /\ mainIdx' = mainIdx + 1
    /\ UNCHANGED <<execution_plan, lock, completed_results, results_snapshot, context,
                   invoked, returned, all_results, ret, rag, sp, oauth, orch, router, parser>>

\* a unit that does not wait at all
DepReadyNoWait(i) == TRUE

\* a unit that waits for every step submitted so far with a smaller index
DepReadyBarrier(i) ==
    \A d \in DOMAIN step_futures : d < i => FutureDone(step_futures[d])

\* lines 103-104: df.result() blocks until the captured Future is done ...
DepReady(i) ==
    IF dep_future[i] = NoDep THEN TRUE ELSE FutureDone(step_futures[dep_future[i]])

\* a unit that gives up as soon as any submitted unit has raised
RaisedAnywhere(i) ==
    { d \in DOMAIN step_futures \ {i} : step_futures[d].state = "exception" }

\* ... and re-raises the exception that Future holds, if any
RaisedDependency(i) ==
    IF dep_future[i] = NoDep THEN {}
    ELSE IF step_futures[dep_future[i]].state = "exception" THEN {dep_future[i]} ELSE {}

WaitDependency(i) ==
    /\ pc[i] = "waiting"
    /\ DepReady(i)
    /\ RaisedDependency(i) = {}
    /\ pc' = [pc EXCEPT ![i] = "want_snapshot"]
    /\ UNCHANGED <<execution_plan, mainPc, mainIdx, step_futures, dep_future, lock,
                   completed_results, results_snapshot, context, invoked, returned,
                   all_results, ret, rag, sp, oauth, orch, router, parser>>

\* line 104 raising: run_step ends with the parent's exception
WaitDependencyRaises(i) ==
    /\ pc[i] = "waiting"
    /\ DepReady(i)
    /\ \E d \in RaisedDependency(i) :
          step_futures' = [step_futures EXCEPT ![i] =
                             Future("exception", <<>>, step_futures[d].exception)]
    /\ pc' = [pc EXCEPT ![i] = "finished"]
    /\ UNCHANGED <<execution_plan, mainPc, mainIdx, dep_future, lock, completed_results,
                   results_snapshot, context, invoked, returned, all_results, ret, rag, sp, oauth, orch, router, parser>>

\* lines 107-108: with lock: results_snapshot = dict(completed_results)
AcquireSnapshot(i) ==
    /\ pc[i] = "want_snapshot"
    /\ LockFree
    /\ lock' = lock \cup {i}
    /\ results_snapshot' = [results_snapshot EXCEPT ![i] = completed_results]
    /\ pc' = [pc EXCEPT ![i] = "snapshot_locked"]
    /\ UNCHANGED <<execution_plan, mainPc, mainIdx, step_futures, dep_future,
                   completed_results, context, invoked, returned, all_results, ret, rag, sp, oauth, orch, router, parser>>

\* leaving the with block, then _execute_single_step lines 44-49: the context
\* is built from the snapshot and the resolver is called with it
InvokeResolver(i) ==
    /\ pc[i] = "snapshot_locked"
    /\ lock' = lock \ {i}
    /\ context' = [context EXCEPT ![i] = GetContextForStep(StepOf(i), results_snapshot[i])]
    /\ invoked' = [invoked EXCEPT ![i] = @ + 1]
    /\ pc' = [pc EXCEPT ![i] = "resolving"]
    /\ UNCHANGED <<execution_plan, mainPc, mainIdx, step_futures, dep_future,
                   completed_results, results_snapshot, returned, all_results, ret, rag, sp, oauth, orch, router, parser>>

\* the resolver returns a Result (success or failure)
ResolverReturns(i) ==
    /\ pc[i] = "resolving"
    /\ \E success \in BOOLEAN, n \in 0..MaxRecords :
          returned' = [returned EXCEPT ![i] =
                          Append(@, ResolverResult(StepOf(i), success, n))]
    /\ pc' = [pc EXCEPT ![i] = "want_publish"]
    /\ UNCHANGED <<execution_plan, mainPc, mainIdx, step_futures, dep_future, lock,
                   completed_results, results_snapshot, context, invoked,
                   all_results, ret, rag, sp, oauth, orch, router, parser>>

\* the resolver raises: run_step ends with that exception
ResolverRaises(i) ==
    /\ pc[i] = "resolving"
    /\ step_futures' = [step_futures EXCEPT ![i] = Future("exception", <<>>, ErrorText(i))]
    /\ pc' = [pc EXCEPT ![i] = "finished"]
    /\ UNCHANGED <<execution_plan, mainPc, mainIdx, dep_future, lock, completed_results,
                   results_snapshot, context, invoked, returned, all_results, ret, rag, sp, oauth, orch, router, parser>>

\* _execute_single_step lines 51-57
BuiltStepResult(i) ==
    LET s == StepOf(i)
    IN StepResult(s.step, s.query, s.route, returned[i][Len(returned[i])], context[i])

\* lines 114-115: with lock: completed_results[s["step"]] = result
AcquirePublish(i) ==
    /\ pc[i] = "want_publish"
    /\ LockFree
    /\ lock' = lock \cup {i}
    /\ completed_results' = (i :> BuiltStepResult(i)) @@ completed_results
    /\ pc' = [pc EXCEPT ![i] = "publish_locked"]
    /\ UNCHANGED <<execution_plan, mainPc, mainIdx, step_futures, dep_future,
                   results_snapshot, context, invoked, returned, all_results, ret, rag, sp, oauth, orch, router, parser>>

\* leaving the with block and line 117: return result
FinishStep(i) ==
    /\ pc[i] = "publish_locked"
    /\ lock' = lock \ {i}
    /\ step_futures' = [step_futures EXCEPT ![i] =
                          Future("result", <<BuiltStepResult(i)>>, NoneStr)]
    /\ pc' = [pc EXCEPT ![i] = "finished"]
    /\ UNCHANGED <<execution_plan, mainPc, mainIdx, dep_future, completed_results,
                   results_snapshot, context, invoked, returned, all_results, ret, rag, sp, oauth, orch, router, parser>>

\* a substitute that drops the error text and keeps success
ErrorStepResultBlank(step, e) ==
    StepResult(step.step, step.query, step.route,
               QueryResult(TRUE, <<>>, <<"Error: ">>, NoneStr), NoneStr)

\* lines 127-141: the StepResult substituted for a unit that raised
ErrorStepResult(step, e) ==
    StepResult(step.step, step.query, step.route,
               QueryResult(FALSE, <<>>, <<"Error: ">> \o e, NoneStr), NoneStr)

\* a collection loop that swallows a raised unit
AppendCollectedDroppingRaised(results, step, f) ==
    IF f.state = "result" THEN Append(results, f.result[1]) ELSE results

\* lines 124-141: try: result = future.result() ... except Exception as e: ...
AppendCollected(results, step, f) ==
    IF f.state = "result" THEN Append(results, f.result[1])
    ELSE Append(results, ErrorStepResult(step, f.exception))

Collect ==
    /\ mainPc = "collect"
    /\ LET step == execution_plan[mainIdx]
           f == step_futures[step.step]
       IN /\ FutureDone(f)
          /\ all_results' = AppendCollected(all_results, step, f)
    /\ IF mainIdx = N
       THEN mainPc' = "sort" /\ mainIdx' = mainIdx
       ELSE mainPc' = "collect" /\ mainIdx' = mainIdx + 1
    /\ UNCHANGED <<execution_plan, step_futures, dep_future, pc, lock, completed_results,
                   results_snapshot, context, invoked, returned, ret, rag, sp, oauth, orch, router, parser>>

\* line 143: all_results.sort(key=lambda r: r["step"]), a stable sort
RECURSIVE InsertByStep(_, _)
InsertByStep(r, sorted) ==
    IF sorted = <<>> THEN <<r>>
    ELSE IF r.step < Head(sorted).step THEN <<r>> \o sorted
         ELSE <<Head(sorted)>> \o InsertByStep(r, Tail(sorted))

\* a sort with the order reversed
SortByStepDescending(results) ==
    [j \in 1..Len(results) |-> results[Len(results) + 1 - j]]

RECURSIVE SortByStep(_)
SortByStep(results) ==
    IF results = <<>> THEN <<>>
    ELSE InsertByStep(results[Len(results)],
                      SortByStep(SubSeq(results, 1, Len(results) - 1)))

\* lines 143-144
Return ==
    /\ mainPc = "sort"
    /\ all_results' = SortByStep(all_results)
    /\ ret' = SortByStep(all_results)
    /\ mainPc' = "returned"
    /\ UNCHANGED <<execution_plan, mainIdx, step_futures, dep_future, pc, lock,
                   completed_results, results_snapshot, context, invoked, returned, rag, sp, oauth, orch, router, parser>>

SchedNext ==
    \/ Submit
    \/ \E i \in StepIds : WaitDependency(i)
    \/ \E i \in StepIds : WaitDependencyRaises(i)
    \/ \E i \in StepIds : AcquireSnapshot(i)
    \/ \E i \in StepIds : InvokeResolver(i)
    \/ \E i \in StepIds : ResolverReturns(i)
    \/ \E i \in StepIds : ResolverRaises(i)
    \/ \E i \in StepIds : AcquirePublish(i)
    \/ \E i \in StepIds : FinishStep(i)
    \/ Collect
    \/ Return

\* ------------------------------------------------------ GraphRAGAgent (graph_rag.py)
\* what the generator and the store can answer
Cyphers == {<<"MATCH a">>, <<"MATCH b">>}
StoreErrors == {<<"SyntaxError">>, <<"ServiceUnavailable">>}
Summaries == {<<"summary">>, <<"No results found.">>}
Contexts == {NoneStr, <<"Previous result: ">>}

\* an LLM response: text that json.loads rejects, or a JSON object whose
\* "cypher" key holds a query, holds "" or is missing
LlmResponses ==
    {[json |-> FALSE, cypher |-> <<>>, text |-> <<"not json">>]}
    \cup {[json |-> TRUE, cypher |-> c, text |-> <<"{}">>] : c \in Cyphers \cup {<<>>}}

\* valid JSON that is no object: result.get then raises AttributeError
ArrayResponses == {[json |-> TRUE, cypher |-> <<>>, text |-> <<"[]">>]}

\* the exception parse_json_response and the .get calls after it raise on a
\* response, "none" when they raise nothing
ParseException(r) ==
    IF ~r.json THEN "JSONDecodeError"
    ELSE IF r.text = <<"[]">> THEN "AttributeError" ELSE "none"

\* an except clause that catches nothing
CaughtNever(exc, handler) == FALSE

\* except <handler>: catches the instances of the class named
Caught(exc, handler) == handler = "Exception" \/ exc = handler

Truncate(text, n) == SubSeq(text, 1, Min(Len(text), n))

\* the state before the first call of query
RagIdle ==
    [pc |-> "idle", query |-> <<>>, context |-> NoneStr, cypher_query |-> <<>>,
     error |-> NoneStr, retry_count |-> 0, raw_results |-> <<>>, result |-> <<>>,
     gen_log |-> <<>>, exec_log |-> <<>>, refinements |-> 0, interpretations |-> 0,
     out |-> <<>>, calls |-> 0, executes |-> 0, results_str |-> <<>>,
     exception |-> "none", prev |-> <<>>]

\* what one finished call took and gave
CallSummary(r) ==
    [context |-> r.context, gen_log |-> r.gen_log, exec_log |-> r.exec_log, out |-> r.out]

\* an initial_state that carries the retry counter and the artifact over
InitialStateKeepingRetries(old, c) ==
    [RagIdle EXCEPT !.pc = "generate_cypher", !.query = <<"q">>, !.context = c,
                    !.retry_count = old.retry_count,
                    !.cypher_query = old.cypher_query,
                    !.calls = old.calls + 1,
                    !.prev = IF old.pc = "returned" THEN <<CallSummary(old)>> ELSE <<>>]

\* lines 226-237: initial_state; of the agent's earlier call only the
\* bookkeeping of this model (calls, prev) is kept
InitialState(old, c) ==
    [RagIdle EXCEPT !.pc = "generate_cypher", !.query = <<"q">>, !.context = c,
                    !.calls = old.calls + 1,
                    !.prev = IF old.pc = "returned" THEN <<CallSummary(old)>> ELSE <<>>]

\* lines 226-239: query builds initial_state and starts the graph at its entry point
RagStart ==
    /\ rag.pc \in {"idle", "returned"}
    /\ rag.calls < MaxCalls
    /\ \E c \in Contexts : rag' = InitialState(rag, c)
    /\ UNCHANGED <<schedVars, sp, oauth, orch, router, parser>>

\* an exception nobody catches leaves query
RagRaised(exc) == [rag EXCEPT !.pc = "raised", !.exception = exc]

\* a parse failure that costs nothing
RetryCountAfterParseFailureUnchanged(retry_count) == retry_count

\* line 120: "retry_count": state.get("retry_count", 0) + 1
RetryCountAfterParseFailure(retry_count) == retry_count + 1

\* lines 99-121
GenerateCypher ==
    /\ rag.pc = "generate_cypher"
    /\ \E r \in LlmResponses \cup ArrayResponses :
          rag' = IF ParseException(r) = "none"
                 THEN [rag EXCEPT !.pc = "execute_query", !.cypher_query = r.cypher,
                                  !.gen_log = Append(@, r)]
                 ELSE IF Caught(ParseException(r), "JSONDecodeError")
                 THEN [rag EXCEPT !.pc = "execute_query", !.cypher_query = <<>>,
                                  !.error = <<"Failed to parse Cypher generation response: ">>
                                            \o Truncate(r.text, 200),
                                  !.retry_count = RetryCountAfterParseFailure(@),
                                  !.gen_log = Append(@, r)]
                 ELSE RagRaised(ParseException(r))
    /\ UNCHANGED <<schedVars, sp, oauth, orch, router, parser>>

\* a conditional edge that allows one refinement too many
ShouldRefineOffByOne(error, retry_count) ==
    IF error # NoneStr /\ retry_count <= 2 THEN "refine" ELSE "interpret"

\* a conditional edge that does not look at the error
ShouldRefineIgnoringError(error, retry_count) ==
    IF retry_count < 2 THEN "refine" ELSE "interpret"

\* lines 206-214
ShouldRefine(error, retry_count) ==
    IF error # NoneStr /\ retry_count < 2 THEN "refine" ELSE "interpret"

NodeAfterExecute(error, retry_count) ==
    IF ShouldRefine(error, retry_count) = "refine"
    THEN "refine_query" ELSE "interpret_results"

\* lines 123-146 followed by the conditional edge of lines 89-93
ExecuteQuery ==
    /\ rag.pc = "execute_query"
    /\ IF rag.cypher_query = <<>>
       THEN LET e == IF rag.error # NoneStr THEN rag.error
                     ELSE <<"No Cypher query generated">>
            IN rag' = [rag EXCEPT !.raw_results = <<>>, !.error = e,
                                  !.executes = @ + 1,
                                  !.pc = NodeAfterExecute(e, rag.retry_count)]
       ELSE \/ \E n \in 0..MaxRecords :
                  rag' = [rag EXCEPT !.raw_results = Records(n), !.error = NoneStr,
                                     !.executes = @ + 1,
                                     !.exec_log = Append(@, [cypher |-> rag.cypher_query,
                                                             failed |-> FALSE,
                                                             records |-> Records(n)]),
                                     !.pc = NodeAfterExecute(NoneStr, rag.retry_count)]
            \/ \E e \in StoreErrors :
                  rag' = IF Caught("Neo4jError", "Exception")
                         THEN [rag EXCEPT !.raw_results = <<>>, !.error = e,
                                     !.executes = @ + 1,
                                     !.exec_log = Append(@, [cypher |-> rag.cypher_query,
                                                             failed |-> TRUE,
                                                             records |-> <<>>]),
                                     !.pc = NodeAfterExecute(e, rag.retry_count)]
                         ELSE RagRaised("Neo4jError")
    /\ UNCHANGED <<schedVars, sp, oauth, orch, router, parser>>

\* a refinement whose parse failure wipes the artifact
CypherAfterFailedRefinementCleared(cypher_query) == <<>>

\* lines 199-203: the dict returned on a parse failure has no "cypher_query"
\* key, so the state keeps the artifact it had
CypherAfterFailedRefinement(cypher_query) == cypher_query

\* lines 180-204
RefineQuery ==
    /\ rag.pc = "refine_query"
    /\ \E r \in LlmResponses \cup ArrayResponses :
          rag' = IF ParseException(r) = "none"
                 THEN [rag EXCEPT !.pc = "execute_query", !.cypher_query = r.cypher,
                                  !.retry_count = @ + 1, !.error = NoneStr,
                                  !.refinements = @ + 1, !.gen_log = Append(@, r)]
                 ELSE IF Caught(ParseException(r), "JSONDecodeError")
                 THEN [rag EXCEPT !.pc = "execute_query",
                                  !.cypher_query = CypherAfterFailedRefinement(@),
                                  !.error = <<"Failed to refine query: ">>
                                            \o Truncate(r.text, 200),
                                  !.retry_count = @ + 1,
                                  !.refinements = @ + 1, !.gen_log = Append(@, r)]
                 ELSE RagRaised(ParseException(r))
    /\ UNCHANGED <<schedVars, sp, oauth, orch, router, parser>>

\* a results section that is always the JSON dump
ResultsStrAlwaysJson(results) == JsonDumps(results)

\* lines 152-160: the results section of the interpretation prompt
ResultsStr(results) ==
    IF results = <<>> THEN <<"No results found.">>
    ELSE IF Len(results) > 20
         THEN JsonDumps(SubSeq(results, 1, 20))
              \o <<"\n... and ", ToString(Len(results) - 20), " more results">>
         ELSE JsonDumps(results)

\* a result that forgets the records
InterpretedResultWithoutData(state, text) ==
    QueryResult(TRUE, <<>>, text, state.cypher_query)

\* lines 172-177
InterpretedResult(state, text) ==
    QueryResult(TRUE, state.raw_results, text, state.cypher_query)

\* lines 148-178
InterpretResults ==
    /\ rag.pc = "interpret_results"
    /\ \E text \in Summaries :
          rag' = [rag EXCEPT !.pc = "end",
                             !.interpretations = @ + 1,
                             !.results_str = ResultsStr(rag.raw_results),
                             !.result = <<InterpretedResult(rag, text)>>]
    /\ UNCHANGED <<schedVars, sp, oauth, orch, router, parser>>

\* lines 241-250
RagReturn ==
    /\ rag.pc = "end"
    /\ rag' = [rag EXCEPT !.pc = "returned",
                          !.out = IF rag.result # <<>> THEN rag.result[1]
                                  ELSE QueryResult(FALSE, <<>>,
                                                   IF rag.error # NoneStr THEN rag.error
                                                   ELSE <<"Query failed">>,
                                                   rag.cypher_query)]
    /\ UNCHANGED <<schedVars, sp, oauth, orch, router, parser>>

RagNext ==
    \/ RagStart
    \/ GenerateCypher
    \/ ExecuteQuery
    \/ RefineQuery
    \/ InterpretResults
    \/ RagReturn

\* ------------------------------------------------------ SpotifyAgent (spotify.py)
\* the request, as lower-case words; "word in query_lower" is a substring test
SpQueries ==
    { <<"find", "song">>, <<"play", "it">>, <<"queue", "it">>, <<"add", "to", "playlist">> }

IsSubstring(w, token) == token = w \/ (w = "play" /\ token = "playlist")
HasWord(query, w) == \E k \in 1..Len(query) : IsSubstring(w, query[k])

\* lines 257-258
IsPlay(query) == \E w \in {"play", "listen", "put on", "start"} : HasWord(query, w)
IsQueue(query) == HasWord(query, "queue")

\* the context string, reduced to what the agent reads from it: the
\* spotify_ids of the records after "Data (N total items):" and whether the
\* text before them holds a 22-character id
SpotifyId(k) == "id" \o ToString(k)
SpContexts ==
    { [ids |-> [k \in 1..n |-> SpotifyId(k)], playlist |-> b] :
        n \in 0..MaxItems, b \in BOOLEAN }

\* lines 208-245: one item per record that has a spotify_id
ExtractSpotifyIdsFromContext(ctx) ==
    [k \in 1..Len(ctx.ids) |-> [uri |-> "spotify:track:" \o ctx.ids[k], name |-> ctx.ids[k]]]

ToolCall(name, arguments) == [name |-> name, arguments |-> arguments]

\* lines 145-154
Handlers ==
    {"search_spotify", "create_playlist", "add_to_playlist", "get_playlists",
     "recently_played", "current_playing", "add_to_queue", "start_playback"}

TrackUris == {"spotify:track:t1"}

\* what _call_tool does with a tool: the handler's string, or an exception
\* (ValueError for a name without handler, the client's error otherwise)
ToolOutcomes(tool) ==
    IF tool.name \notin Handlers
    THEN {[raised |-> "ValueError", result |-> <<"Unknown tool: ", tool.name>>]}
    ELSE {[raised |-> "SpotifyException", result |-> <<"http status 500">>]}
         \cup (IF tool.name = "search_spotify"
               THEN {[raised |-> "none", result |-> <<"Found: ", "spotify:track:t1">>],
                     [raised |-> "none", result |-> <<"No results found">>]}
               ELSE {[raised |-> "none", result |-> <<"Done">>]})

\* a wrapper that reports success whatever happened
ExecuteToolAlwaysOk(tool, outcome) ==
    [tool |-> tool.name, arguments |-> tool.arguments, result |-> outcome.result,
     success |-> TRUE]

\* lines 123-139; its except Exception catches whatever _call_tool raises
ExecuteTool(tool, outcome) ==
    [tool |-> tool.name, arguments |-> tool.arguments, result |-> outcome.result,
     success |-> outcome.raised = "none"]

ToolEscapes(outcome) ==
    outcome.raised # "none" /\ ~Caught(outcome.raised, "Exception")

\* lines 163-171
RECURSIVE ExtractUrisFromResults(_)
ExtractUrisFromResults(tool_results) ==
    IF tool_results = <<>> THEN <<>>
    ELSE LET r == Head(tool_results)
             found == SelectSeq(r.result, LAMBDA t : t \in TrackUris)
         IN (IF r.tool = "search_spotify" /\ r.success /\ found # <<>>
             THEN <<found[1]>> ELSE <<>>)
            \o ExtractUrisFromResults(Tail(tool_results))

\* line 192-194: the first 22-character id of the context
PlaylistIdMatch(ctx) ==
    IF ctx.playlist THEN <<"playlistid">>
    ELSE IF ctx.ids # <<>> THEN <<ctx.ids[1]>> ELSE NoneStr

\* lines 173-204
TryDeterministicFollowup(query, ctx, tool_results) ==
    LET uris == ExtractUrisFromResults(tool_results)
    IN IF uris = <<>> THEN <<>>
       ELSE IF HasWord(query, "queue")
            THEN [k \in 1..Len(uris) |-> ToolCall("add_to_queue", <<uris[k]>>)]
            ELSE IF HasWord(query, "playlist") /\ PlaylistIdMatch(ctx) # NoneStr
                 THEN <<ToolCall("add_to_playlist", PlaylistIdMatch(ctx) \o uris)>>
                 ELSE <<>>

\* the tool selections the generator can return: up to MaxTools tools
SelectableTools == {"search_spotify", "add_to_queue", "bogus_tool"}
ToolLists ==
    UNION { [1..n -> { ToolCall(t, <<"args">>) : t \in SelectableTools }] : n \in 0..MaxTools }

\* the answers of the generator to the tool selection prompt ...
SelectResponses ==
    {[json |-> FALSE, text |-> <<"not json">>, tools |-> <<>>],
     [json |-> TRUE, text |-> <<"[]">>, tools |-> <<>>]}
    \cup {[json |-> TRUE, text |-> <<"{}">>, tools |-> l] : l \in ToolLists}

\* ... and to the planning prompt
PlanResponses ==
    {[json |-> FALSE, text |-> <<"not json">>, is_final |-> FALSE, name |-> ""],
     [json |-> TRUE, text |-> <<"[]">>, is_final |-> FALSE, name |-> ""],
     [json |-> TRUE, text |-> <<"{}">>, is_final |-> TRUE, name |-> "add_to_queue"],
     [json |-> TRUE, text |-> <<"{}">>, is_final |-> FALSE, name |-> "none"],
     [json |-> TRUE, text |-> <<"{}">>, is_final |-> FALSE, name |-> "add_to_queue"]}

AllSucceeded(tool_results) ==
    \A k \in 1..Len(tool_results) : tool_results[k].success

\* the state before query is called
SpIdle ==
    [pc |-> "idle", query |-> <<>>, context |-> [ids |-> <<>>, playlist |-> FALSE],
     tools |-> <<>>, idx |-> 1, tool_results |-> <<>>, followup_tools |-> <<>>,
     iterations |-> 0, select_calls |-> 0, plan_calls |-> 0, executions |-> 0,
     last_prompt |-> <<>>, signal |-> "none", exception |-> "none", out |-> <<>>,
     selection |-> <<>>]

\* lines 254-264: the fast path applies
DirectPlaybackApplies(query, ctx) ==
    (IsPlay(query) \/ IsQueue(query)) /\ ExtractSpotifyIdsFromContext(ctx) # <<>>

\* line 298: query is called; the fast path is tried first
SpotStart ==
    /\ sp.pc = "idle"
    /\ \E q \in SpQueries, c \in SpContexts :
          sp' = [SpIdle EXCEPT !.query = q, !.context = c,
                               !.pc = IF DirectPlaybackApplies(q, c)
                                      THEN "direct" ELSE "select"]
    /\ UNCHANGED <<schedVars, rag, oauth, orch, router, parser>>

SpRaised(exc) == [sp EXCEPT !.pc = "raised", !.exception = exc]

\* lines 343-351 and 276-284
SpotResult(tool_results, interpretation) ==
    QueryResult(AllSucceeded(tool_results), tool_results, interpretation, NoneStr)

\* a fast path that only ever queues
DirectToolAlwaysQueue(query, items, i) ==
    ToolCall("add_to_queue", <<items[i + 1].uri>>)

\* lines 269-274: the tool built for item i (0-based)
DirectTool(query, items, i) ==
    IF IsPlay(query) /\ i = 0
    THEN ToolCall("start_playback", <<items[i + 1].uri>>)
    ELSE ToolCall("add_to_queue", <<items[i + 1].uri>>)

\* lines 269-284: one iteration of the fast path's loop; the last one returns
DirectExecute ==
    /\ sp.pc = "direct"
    /\ LET items == ExtractSpotifyIdsFromContext(sp.context)
           tool == DirectTool(sp.query, items, sp.idx - 1)
       IN \E o \in ToolOutcomes(tool) :
            LET results == Append(sp.tool_results, ExecuteTool(tool, o))
            IN sp' = IF ToolEscapes(o) THEN SpRaised(o.raised)
                     ELSE IF sp.idx < Len(items)
                     THEN [sp EXCEPT !.tool_results = results, !.idx = @ + 1,
                                     !.executions = @ + 1]
                     ELSE [sp EXCEPT !.tool_results = results, !.executions = @ + 1,
                                     !.pc = "returned",
                                     !.out = SpotResult(results,
                                         <<"Played ", ToString(Len(results)),
                                           " track(s) directly from listening history.">>)]
    /\ UNCHANGED <<schedVars, rag, oauth, orch, router, parser>>

\* lines 76-89: the pair (tools, error) that _select_tools returns
SelectToolsResult(r) ==
    IF ParseException(r) = "none"
    THEN [tools |-> r.tools, error |-> NoneStr]
    ELSE [tools |-> <<>>,
          error |-> <<"Failed to parse tool selection: ">> \o Truncate(r.text, 200)]

\* a failure that never says why
FailureInterpretationFixed(error) == <<"No tools selected">>

\* line 308: error or "No tools selected"
FailureInterpretation(error) ==
    IF error # NoneStr THEN error ELSE <<"No tools selected">>

\* lines 63-89 and 303-311
SelectTools ==
    /\ sp.pc = "select"
    /\ \E r \in SelectResponses :
          sp' = IF ParseException(r) # "none" /\ ~Caught(ParseException(r), "JSONDecodeError")
                THEN SpRaised(ParseException(r))
                ELSE LET sel == SelectToolsResult(r)
                     IN IF sel.error # NoneStr \/ sel.tools = <<>>
                        THEN [sp EXCEPT !.select_calls = @ + 1, !.selection = r,
                                        !.pc = "returned",
                                        !.out = QueryResult(FALSE, <<>>,
                                                   FailureInterpretation(sel.error), NoneStr)]
                        ELSE [sp EXCEPT !.select_calls = @ + 1, !.selection = r,
                                        !.tools = sel.tools, !.idx = 1,
                                        !.pc = "execute_initial"]
    /\ UNCHANGED <<schedVars, rag, oauth, orch, router, parser>>

\* a test that is content with one search
OnlySearchesAny(tool_results) ==
    \E k \in 1..Len(tool_results) : tool_results[k].tool = "search_spotify"

\* line 319
OnlySearches(tool_results) ==
    \A k \in 1..Len(tool_results) : tool_results[k].tool = "search_spotify"

\* a loop that allows one iteration more
LoopContinuesOnceMore(iterations) == iterations <= MaxFollowups

\* line 331: for _ in range(max_followups)
LoopContinues(iterations) == iterations < MaxFollowups

\* a query that never takes the shortcut
ShortcutFoundNever(followup_tools) == FALSE

\* line 329: if not followup_tools ... else
ShortcutFound(followup_tools) == followup_tools # <<>>

\* lines 321-340: where query goes once the initial batch is executed
AfterInitialBatch(state, results) ==
    IF OnlySearches(results)
    THEN LET followup == TryDeterministicFollowup(state.query, state.context, results)
         IN IF ~ShortcutFound(followup)
            THEN [state EXCEPT !.tool_results = results, !.executions = @ + 1,
                               !.iterations = 0,
                               !.pc = IF LoopContinues(0) THEN "plan" ELSE "finish"]
            ELSE [state EXCEPT !.tool_results = results, !.executions = @ + 1,
                               !.followup_tools = followup, !.idx = 1,
                               !.pc = "followup"]
    ELSE [state EXCEPT !.tool_results = results, !.executions = @ + 1, !.pc = "finish"]

\* a batch that is abandoned at the first failed tool
BatchContinuesWhileSucceeding(result, idx, n) == idx < n /\ result.success

\* line 315: for tool in tools has another tool to run
BatchContinues(result, idx, n) == idx < n

\* lines 314-316: one iteration of the loop over the selected tools
ExecuteInitial ==
    /\ sp.pc = "execute_initial"
    /\ \E o \in ToolOutcomes(sp.tools[sp.idx]) :
          LET results == Append(sp.tool_results, ExecuteTool(sp.tools[sp.idx], o))
          IN sp' = IF ToolEscapes(o) THEN SpRaised(o.raised)
                   ELSE IF BatchContinues(Last(results), sp.idx, Len(sp.tools))
                   THEN [sp EXCEPT !.tool_results = results, !.idx = @ + 1,
                                   !.executions = @ + 1]
                   ELSE AfterInitialBatch(sp, results)
    /\ UNCHANGED <<schedVars, rag, oauth, orch, router, parser>>

\* lines 339-340: one iteration of the loop over the deterministic follow-ups
FollowupExecute ==
    /\ sp.pc = "followup"
    /\ \E o \in ToolOutcomes(sp.followup_tools[sp.idx]) :
          LET results == Append(sp.tool_results, ExecuteTool(sp.followup_tools[sp.idx], o))
          IN sp' = IF ToolEscapes(o) THEN SpRaised(o.raised)
                   ELSE [sp EXCEPT !.tool_results = results, !.executions = @ + 1,
                                   !.idx = @ + 1,
                                   !.pc = IF sp.idx < Len(sp.followup_tools)
                                          THEN "followup" ELSE "finish"]
    /\ UNCHANGED <<schedVars, rag, oauth, orch, router, parser>>

\* what _plan_next_tool (lines 106-119) makes of a response
PlanSignal(r) ==
    IF ~r.json THEN "unparsable"
    ELSE IF r.is_final THEN "final"
    ELSE IF r.name = "none" THEN "none" ELSE "tool"

\* lines 332-334: the planning call of one iteration; None ends the loop
PlanNextTool ==
    /\ sp.pc = "plan"
    /\ \E r \in PlanResponses :
          sp' = IF ParseException(r) # "none" /\ ~Caught(ParseException(r), "JSONDecodeError")
                THEN SpRaised(ParseException(r))
                ELSE IF PlanSignal(r) = "tool"
                THEN [sp EXCEPT !.plan_calls = @ + 1, !.last_prompt = sp.tool_results,
                                !.signal = "tool",
                                !.followup_tools = <<ToolCall(r.name, <<"args">>)>>,
                                !.pc = "plan_execute"]
                ELSE [sp EXCEPT !.plan_calls = @ + 1, !.last_prompt = sp.tool_results,
                                !.signal = PlanSignal(r), !.pc = "finish"]
    /\ UNCHANGED <<schedVars, rag, oauth, orch, router, parser>>

\* a loop that gives up after a failed tool
AfterFollowupStoppingOnFailure(result, iterations) ==
    IF result.success /\ LoopContinues(iterations) THEN "plan" ELSE "finish"

\* lines 331 and 335-336: after the tool of an iteration, the next iteration
\* if range(max_followups) has one
AfterFollowup(result, iterations) ==
    IF LoopContinues(iterations) THEN "plan" ELSE "finish"

\* lines 335-336: the planned tool is executed and its result appended
ExecutePlanned ==
    /\ sp.pc = "plan_execute"
    /\ \E o \in ToolOutcomes(sp.followup_tools[1]) :
          LET result == ExecuteTool(sp.followup_tools[1], o)
          IN sp' = IF ToolEscapes(o) THEN SpRaised(o.raised)
                   ELSE [sp EXCEPT !.tool_results = Append(@, result),
                                   !.executions = @ + 1,
                                   !.iterations = @ + 1,
                                   !.pc = AfterFollowup(result, sp.iterations + 1)]
    /\ UNCHANGED <<schedVars, rag, oauth, orch, router, parser>>

\* lines 343-351
SpotReturn ==
    /\ sp.pc = "finish"
    /\ sp' = [sp EXCEPT !.pc = "returned",
                        !.out = SpotResult(sp.tool_results,
                                   IF sp.tool_results = <<>> THEN <<"No results.">>
                                   ELSE <<"Executed ", ToString(Len(sp.tool_results)),
                                          " tool(s).">>)]
    /\ UNCHANGED <<schedVars, rag, oauth, orch, router, parser>>

SpotNext ==
    \/ SpotStart
    \/ DirectExecute
    \/ SelectTools
    \/ ExecuteInitial
    \/ FollowupExecute
    \/ PlanNextTool
    \/ ExecutePlanned
    \/ SpotReturn


\* ------------------------------------------- SpotifyOAuthHandler (oauth_handler.py)
NoPath == "None"
CachePaths == { ".spotify_cache" \o ToString(k) : k \in 1..MaxPaths }

\* lines 28-30: the handler after __init__; files are the token caches on disk
OAuthHandler(files) ==
    [sp |-> "None", sp_oauth |-> NoPath, cache_path |-> NoPath, files |-> files,
     last_call |-> "init", manager_in_use |-> NoPath]

\* the handler while no call of it is modelled
OAuthIdle == OAuthHandler({})

\* lines 57-83: authenticate(cache_path); sp_oauth is named by the cache path
\* its SpotifyOAuth was built with. granted says whether the token exchange
\* of the interactive flow succeeds; if not, get_access_token raises
AuthenticateOn(h, cache_path, granted) ==
    LET h1 == [h EXCEPT !.cache_path = cache_path, !.sp_oauth = cache_path]
    IN IF cache_path \in h.files
       THEN [h1 EXCEPT !.sp = "Spotify"]
       ELSE IF granted
            THEN [h1 EXCEPT !.sp = "Spotify", !.files = @ \cup {cache_path}]
            ELSE h1

\* lines 85-102: get_spotify_client(cache_path); the cached token is read from
\* the file of the manager the handler holds
GetSpotifyClientOn(h, cache_path, granted) ==
    LET h1 == [h EXCEPT !.cache_path = cache_path]
    IN IF h.sp_oauth = NoPath THEN AuthenticateOn(h1, cache_path, granted)
       ELSE IF h.sp_oauth \notin h.files THEN AuthenticateOn(h1, cache_path, granted)
       ELSE IF granted THEN [h1 EXCEPT !.sp = "Spotify"]
            ELSE h1

\* lines 104-110
RevokeTokenOn(h) ==
    [h EXCEPT !.files = IF h.cache_path # NoPath /\ h.cache_path \in h.files
                        THEN @ \ {h.cache_path} ELSE @,
              !.sp = "None", !.sp_oauth = NoPath, !.cache_path = NoPath]

Authenticate ==
    /\ \E p \in CachePaths, granted \in BOOLEAN :
          oauth' = [AuthenticateOn(oauth, p, granted) EXCEPT
                       !.last_call = "authenticate", !.manager_in_use = NoPath]
    /\ UNCHANGED <<schedVars, rag, sp, orch, router, parser>>

GetSpotifyClient ==
    /\ \E p \in CachePaths, granted \in BOOLEAN :
          oauth' = [GetSpotifyClientOn(oauth, p, granted) EXCEPT
                       !.last_call = "get_spotify_client", !.manager_in_use = NoPath]
    /\ UNCHANGED <<schedVars, rag, sp, orch, router, parser>>

RevokeToken ==
    /\ oauth' = [RevokeTokenOn(oauth) EXCEPT
                    !.last_call = "revoke_token", !.manager_in_use = oauth.sp_oauth]
    /\ UNCHANGED <<schedVars, rag, sp, orch, router, parser>>

OAuthNext ==
    \/ Authenticate
    \/ GetSpotifyClient
    \/ RevokeToken

\* ------------------- RouterAgent._build_execution_plan, one loop step at a time
\* the classified lists the generator can give rise to: depends_on is whatever
\* integer the decomposition response carried, also an index not in the list
AnySubQueryLists ==
    UNION { { [i \in 1..n |-> SubQuery(i - 1, r[i], d[i])] :
                r \in RouteAssignments(n), d \in [1..n -> {NoDep} \cup (0..n)] }
            : n \in 1..MaxSubQueries }

RouterIdle ==
    [pc |-> "idle", sub_queries |-> <<>>, plan |-> <<>>, executed |-> {}, i |-> 0]

\* lines 172-176
BuildStart ==
    /\ router.pc = "idle"
    /\ \E sub_queries \in AnySubQueryLists :
          router' = [RouterIdle EXCEPT !.pc = "while", !.sub_queries = sub_queries]
    /\ UNCHANGED <<schedVars, rag, sp, oauth, orch, parser>>

\* line 178: while len(executed) < len(sub_queries); line 196 when it is false
WhileTest ==
    /\ router.pc = "while"
    /\ router' = IF Cardinality(router.executed) < Len(router.sub_queries)
                 THEN [router EXCEPT !.pc = "for", !.i = 0]
                 ELSE [router EXCEPT !.pc = "returned"]
    /\ UNCHANGED <<schedVars, rag, sp, oauth, orch, parser>>

\* lines 179-194: one iteration of for i, sq in enumerate(sub_queries)
ForStep ==
    /\ router.pc = "for"
    /\ LET i == router.i
           sq == router.sub_queries[i + 1]
           dep == sq.depends_on
           after == IF i + 1 < Len(router.sub_queries) THEN "for" ELSE "while"
       IN router' =
            IF i \in router.executed
            THEN [router EXCEPT !.i = i + 1, !.pc = after]
            ELSE IF dep = NoDep \/ dep \in router.executed
                 THEN [router EXCEPT
                         !.plan = Append(@, ExecutionStep(Len(router.plan), sq.cleaned_text,
                                                          sq.route, dep)),
                         !.executed = @ \cup {i},
                         !.i = i + 1, !.pc = after]
                 ELSE [router EXCEPT !.i = i + 1, !.pc = after]
    /\ UNCHANGED <<schedVars, rag, sp, oauth, orch, parser>>

RouterNext ==
    \/ BuildStart
    \/ WhileTest
    \/ ForStep

\* ------------------------------------------------------- Orchestrator.query
\* what router.route can hand back as execution_plan: nothing, or a plan
RouterResults == {<<>>} \cup { p \in RouterPlans : Len(p) <= MaxQuerySteps }
SynthesisResponses == {<<"answer">>}

OrchIdle ==
    [pc |-> "idle", execution_plan |-> <<>>, routed |-> 0, scheduled |-> 0,
     synthesized |-> 0, out |-> <<>>]

\* an early return that reports success
EmptyPlanResultSucceeds ==
    [response |-> <<"I couldn't understand your query. Please try again.">>,
     success |-> TRUE,
     details |-> [execution_plan |-> <<>>, step_results |-> <<>>]]

\* lines 156-160
EmptyPlanResult ==
    [response |-> <<"I couldn't understand your query. Please try again.">>,
     success |-> FALSE,
     details |-> [execution_plan |-> <<>>, step_results |-> <<>>]]

\* lines 152-160: the router gave no plan
RouteAndReturn ==
    /\ orch.pc = "idle"
    /\ <<>> \in RouterResults
    /\ orch' = [orch EXCEPT !.pc = "returned", !.routed = @ + 1, !.out = EmptyPlanResult]
    /\ UNCHANGED <<schedVars, rag, sp, oauth, router, parser>>

\* lines 152-155 and 163: the router gave a plan and _execute_plan_parallel
\* is entered with it (lines 90-92)
RouteAndExecute ==
    /\ orch.pc = "idle"
    /\ \E plan \in RouterResults \ {<<>>} :
          LET ids == { plan[k].step : k \in 1..Len(plan) }
          IN /\ orch' = [orch EXCEPT !.pc = "executing", !.routed = @ + 1,
                                     !.scheduled = @ + 1, !.execution_plan = plan]
             /\ execution_plan' = plan
             /\ dep_future' = [i \in ids |-> NoDep]
             /\ pc' = [i \in ids |-> "unsubmitted"]
             /\ results_snapshot' = [i \in ids |-> EmptyDict]
             /\ context' = [i \in ids |-> NoneStr]
             /\ invoked' = [i \in ids |-> 0]
             /\ returned' = [i \in ids |-> <<>>]
    /\ mainPc' = "submit"
    /\ mainIdx' = 1
    /\ step_futures' = EmptyDict
    /\ lock' = {}
    /\ completed_results' = EmptyDict
    /\ all_results' = <<>>
    /\ ret' = <<>>
    /\ UNCHANGED <<rag, sp, oauth, router, parser>>

\* lines 166-180
Synthesize ==
    /\ orch.pc = "executing"
    /\ mainPc = "returned"
    /\ \E final_response \in SynthesisResponses :
          orch' = [orch EXCEPT
                     !.pc = "returned", !.synthesized = @ + 1,
                     !.out = [response |-> final_response,
                              success |-> \A k \in 1..Len(ret) : ret[k].result.success,
                              details |-> [execution_plan |-> orch.execution_plan,
                                           step_results |-> ret]]]
    /\ UNCHANGED <<schedVars, rag, sp, oauth, router, parser>>

\* line 166 raising: the synthesizer's exception leaves query
SynthesizeRaises ==
    /\ orch.pc = "executing"
    /\ mainPc = "returned"
    /\ orch' = [orch EXCEPT !.pc = "raised", !.synthesized = @ + 1]
    /\ UNCHANGED <<schedVars, rag, sp, oauth, router, parser>>

QueryNext ==
    \/ RouteAndReturn
    \/ RouteAndExecute
    \/ orch.pc = "executing" /\ SchedNext
    \/ Synthesize
    \/ SynthesizeRaises

\* ---------------------------------- SpotifyParser._enrich_with_spotify_data
NoTrack == "None"
HistoryItem(ts, track_id) == [ts |-> ts, track_id |-> track_id]
TrackId(k) == "t" \o ToString(k)
\* a track object of the API or the cache; known_tracks.get(tid) giving None
TrackObject(id) == [id |-> id]
NoTrackObject == TrackObject(NoTrack)

\* the subsets of S with at most k elements
RECURSIVE SubsetsUpTo(_, _)
SubsetsUpTo(S, k) ==
    IF k = 0 THEN {{}}
    ELSE LET smaller == SubsetsUpTo(S, k - 1)
         IN smaller \cup { x \cup {e} : x \in smaller, e \in S }

\* the lists tried: short ones and ones that fill one batch or a little more;
\* the items in untracked have no track id
InputLengths == (0..MaxShort) \cup (ChunkSize..(ChunkSize + MaxOver))

FilteredData(n, untracked) ==
    [k \in 1..n |-> HistoryItem(k, IF k \in untracked THEN NoTrack ELSE TrackId(k))]

\* line 100
ValidItems(filtered_data) == SelectSeq(filtered_data, LAMBDA item : item.track_id # NoTrack)

\* lines 291-327
CreateFallbackItem(original_item) ==
    [ts |-> original_item.ts, trackId |-> original_item.track_id, duration_ms |-> "None"]

\* lines 221-289
TransformToFinalFormat(original_item, track) ==
    [ts |-> original_item.ts, trackId |-> track.id, duration_ms |-> "ms"]

\* lines 201-211: the loop over zip(batch_items, batch_tracks_objects) from
\* position k; raise_at is the position whose transformation raises (0: none).
\* Gives the list built and whether the loop ended in an exception.
RECURSIVE TransformLoop(_, _, _, _, _)
TransformLoop(batch_items, batch_tracks_objects, k, raise_at, enriched_data) ==
    IF k > Len(batch_items) THEN [enriched_data |-> enriched_data, raised |-> FALSE]
    ELSE IF batch_tracks_objects[k] # NoTrackObject
         THEN IF k = raise_at
              THEN [enriched_data |-> enriched_data, raised |-> TRUE]
              ELSE TransformLoop(batch_items, batch_tracks_objects, k + 1, raise_at,
                                 Append(enriched_data,
                                        TransformToFinalFormat(batch_items[k],
                                                               batch_tracks_objects[k])))
         ELSE TransformLoop(batch_items, batch_tracks_objects, k + 1, raise_at,
                            Append(enriched_data, CreateFallbackItem(batch_items[k])))

\* lines 213-216: except Exception of the batch
BatchErrorHandler(batch_items, enriched_data) ==
    enriched_data \o [k \in 1..Len(batch_items) |-> CreateFallbackItem(batch_items[k])]

\* what can happen to a batch of n items with a budget of irregular events:
\*   batch_error  an exception before the transformation (json.loads of a
\*                cached row at line 49, a non-sqlite error while saving)
\*   missing      the positions whose track is neither cached nor returned by
\*                the API (all of them when the fetch of line 127 raised)
\*   raise_at     the position whose transformation raises, 0 for none
BatchOutcome(batch_error, missing, raise_at, cost) ==
    [batch_error |-> batch_error, missing |-> missing, raise_at |-> raise_at, cost |-> cost]

BatchOutcomes(n, budget) ==
    { BatchOutcome(FALSE, m, r, Cardinality(m) + (IF r = 0 THEN 0 ELSE 1)) :
        m \in SubsetsUpTo(1..n, budget), r \in 0..(IF budget > 0 THEN n ELSE 0) }
    \cup (IF budget > 0
          THEN { BatchOutcome(TRUE, {}, 0, 1), BatchOutcome(FALSE, 1..n, 0, 1) }
          ELSE {})

ParserIdle ==
    [pc |-> "idle", filtered_data |-> <<>>, valid_items |-> <<>>, i |-> 0,
     enriched_data |-> <<>>, irregular |-> 0, batches |-> 0, out |-> <<>>]

\* lines 98-103
EnrichStart ==
    /\ parser.pc = "idle"
    /\ \E n \in InputLengths :
         \E untracked \in SubsetsUpTo(1..n, MaxIrregular) :
            parser' = [ParserIdle EXCEPT
                         !.pc = "batch",
                         !.filtered_data = FilteredData(n, untracked),
                         !.valid_items = ValidItems(FilteredData(n, untracked)),
                         !.irregular = Cardinality(untracked)]
    /\ UNCHANGED <<schedVars, rag, sp, oauth, orch, router>>

\* lines 105-216: one iteration of the loop over the batches
ProcessBatch ==
    /\ parser.pc = "batch"
    /\ parser.i < Len(parser.valid_items)
    /\ LET batch_items == SubSeq(parser.valid_items, parser.i + 1,
                                 Min(parser.i + ChunkSize, Len(parser.valid_items)))
           n == Len(batch_items)
       IN \E o \in BatchOutcomes(n, MaxIrregular - parser.irregular) :
            /\ o.cost <= MaxIrregular - parser.irregular
            /\ o.raise_at \notin o.missing
            /\ LET batch_tracks_objects ==
                       [k \in 1..n |-> IF k \in o.missing THEN NoTrackObject
                                       ELSE TrackObject(batch_items[k].track_id)]
                   loop == TransformLoop(batch_items, batch_tracks_objects, 1, o.raise_at,
                                         parser.enriched_data)
               IN parser' = [parser EXCEPT
                    !.enriched_data =
                        IF o.batch_error
                        THEN BatchErrorHandler(batch_items, parser.enriched_data)
                        ELSE IF loop.raised
                             THEN BatchErrorHandler(batch_items, loop.enriched_data)
                             ELSE loop.enriched_data,
                    !.i = @ + ChunkSize,
                    !.irregular = @ + o.cost,
                    !.batches = @ + 1]
    /\ UNCHANGED <<schedVars, rag, sp, oauth, orch, router>>

\* line 218
EnrichReturn ==
    /\ parser.pc = "batch"
    /\ parser.i >= Len(parser.valid_items)
    /\ parser' = [parser EXCEPT !.pc = "returned", !.out = parser.enriched_data]
    /\ UNCHANGED <<schedVars, rag, sp, oauth, orch, router>>

ParserNext ==
    \/ EnrichStart
    \/ ProcessBatch
    \/ EnrichReturn

\* every component but the scheduler and the resolvers is at rest
OthersIdle == orch = OrchIdle /\ router = RouterIdle /\ parser = ParserIdle

\* ------------------------------------------------------------- specifications
\* the scheduler on its own
Init == SchedInit /\ rag = RagIdle /\ sp = SpIdle /\ oauth = OAuthIdle /\ OthersIdle
Next == SchedNext
Spec == Init /\ [][Next]_vars

\* every thread that can take a step eventually takes one, and a resolver
\* call that was started ends
FairSpec == Spec /\ WF_vars(Next)

\* _execute_plan_parallel called with any list of steps numbered 0..n-1: a
\* depends_on may name the step itself, a later step, or no step at all
AnyPlans ==
    UNION { { [i \in 1..n |-> ExecutionStep(i - 1, QueryText(i - 1), r[i], d[i])] :
                r \in RouteAssignments(n), d \in [1..n -> {NoDep} \cup (0..n)] }
            : n \in 1..MaxAnySteps }

AnyPlanInit == SchedInitOver(AnyPlans) /\ rag = RagIdle /\ sp = SpIdle /\ oauth = OAuthIdle /\ OthersIdle
AnyPlanSpec == AnyPlanInit /\ [][Next]_vars
AnyPlanFairSpec == AnyPlanSpec /\ WF_vars(Next)

\* the data resolver on its own
SchedIdle ==
    /\ execution_plan = <<>>
    /\ mainPc = "idle"
    /\ mainIdx = 1
    /\ step_futures = EmptyDict
    /\ dep_future = EmptyDict
    /\ pc = EmptyDict
    /\ lock = {}
    /\ completed_results = EmptyDict
    /\ results_snapshot = EmptyDict
    /\ context = EmptyDict
    /\ invoked = EmptyDict
    /\ returned = EmptyDict
    /\ all_results = <<>>
    /\ ret = <<>>

\* the Context Builder on its own: a dependent step, and a store that holds
\* its parent's StepResult with up to MaxData records, or does not hold it
ParentResults ==
    { StepResult(0, QueryText(0), "graph_rag",
                 QueryResult(success, Records(n), interpretation, <<"cypher">>), NoneStr) :
        success \in BOOLEAN, n \in 0..MaxData,
        interpretation \in {<<"answer0">>, <<"failed0">>, <<>>} }

ContextInit ==
    /\ execution_plan \in
          { <<ExecutionStep(0, QueryText(0), "graph_rag", NoDep),
              ExecutionStep(1, QueryText(1), "spotify", d)>> : d \in {NoDep, 0} }
    /\ completed_results \in {EmptyDict} \cup { (0 :> r) : r \in ParentResults }
    /\ mainPc = "build_context"
    /\ mainIdx = 1
    /\ step_futures = EmptyDict
    /\ dep_future = EmptyDict
    /\ pc = EmptyDict
    /\ lock = {}
    /\ results_snapshot = EmptyDict
    /\ context = (1 :> NoneStr)
    /\ invoked = EmptyDict
    /\ returned = EmptyDict
    /\ all_results = <<>>
    /\ ret = <<>>
    /\ rag = RagIdle
    /\ sp = SpIdle
    /\ oauth = OAuthIdle
    /\ OthersIdle

\* _execute_single_step line 44
BuildContext ==
    /\ mainPc = "build_context"
    /\ context' = [context EXCEPT ![1] = GetContextForStep(execution_plan[2],
                                                           completed_results)]
    /\ mainPc' = "context_built"
    /\ UNCHANGED <<execution_plan, mainIdx, step_futures, dep_future, pc, lock,
                   completed_results, results_snapshot, invoked, returned,
                   all_results, ret, rag, sp, oauth, orch, router, parser>>

ContextSpec == ContextInit /\ [][BuildContext]_vars

RagInit == SchedIdle /\ rag = RagIdle /\ sp = SpIdle /\ oauth = OAuthIdle /\ OthersIdle
RagSpec == RagInit /\ [][RagNext]_vars

\* the action resolver on its own
SpotInit == SchedIdle /\ rag = RagIdle /\ sp = SpIdle /\ oauth = OAuthIdle /\ OthersIdle
SpotSpec == SpotInit /\ [][SpotNext]_vars

\* query runs on one thread that is not stopped from outside
SpotFairSpec == SpotSpec /\ WF_vars(SpotNext)

\* a handler after __init__, with any token caches left on disk by earlier runs
OAuthInit ==
    /\ SchedIdle /\ rag = RagIdle /\ sp = SpIdle /\ OthersIdle
    /\ \E files \in SUBSET CachePaths : oauth = OAuthHandler(files)

OAuthSpec == OAuthInit /\ [][OAuthNext]_vars

\* a two-step chain end to end: step 0 is answered by GraphRAGAgent.query
\* itself, step 1 depends on it
ChainPlan ==
    <<ExecutionStep(0, QueryText(0), "graph_rag", NoDep),
      ExecutionStep(1, <<"play", "it">>, "spotify", 0)>>

ChainInit ==
    /\ execution_plan = ChainPlan
    /\ mainPc = "submit"
    /\ mainIdx = 1
    /\ step_futures = EmptyDict
    /\ dep_future = [i \in StepIds |-> NoDep]
    /\ pc = [i \in StepIds |-> "unsubmitted"]
    /\ lock = {}
    /\ completed_results = EmptyDict
    /\ results_snapshot = [i \in StepIds |-> EmptyDict]
    /\ context = [i \in StepIds |-> NoneStr]
    /\ invoked = [i \in StepIds |-> 0]
    /\ returned = [i \in StepIds |-> <<>>]
    /\ all_results = <<>>
    /\ ret = <<>>
    /\ rag = RagIdle /\ sp = SpIdle /\ oauth = OAuthIdle /\ OthersIdle

\* orchestrator.py line 47: self.graph_rag.query(step["query"], context=context)
GraphRagCalled ==
    /\ pc[0] = "resolving"
    /\ rag.pc = "idle"
    /\ rag' = InitialState(rag, context[0])
    /\ UNCHANGED <<schedVars, sp, oauth, orch, router, parser>>

\* the nodes of the graph run inside that call
GraphRagRuns ==
    /\ pc[0] = "resolving"
    /\ \/ GenerateCypher
       \/ ExecuteQuery
       \/ RefineQuery
       \/ InterpretResults
       \/ RagReturn

\* query returns its Result to _execute_single_step
GraphRagReturns ==
    /\ pc[0] = "resolving"
    /\ rag.pc = "returned"
    /\ returned' = [returned EXCEPT ![0] = Append(@, rag.out)]
    /\ pc' = [pc EXCEPT ![0] = "want_publish"]
    /\ UNCHANGED <<execution_plan, mainPc, mainIdx, step_futures, dep_future, lock,
                   completed_results, results_snapshot, context, invoked,
                   all_results, ret, rag, sp, oauth, orch, router, parser>>

\* an exception leaves query and ends run_step
GraphRagRaises ==
    /\ pc[0] = "resolving"
    /\ rag.pc = "raised"
    /\ step_futures' = [step_futures EXCEPT ![0] =
                          Future("exception", <<>>, <<rag.exception>>)]
    /\ pc' = [pc EXCEPT ![0] = "finished"]
    /\ UNCHANGED <<execution_plan, mainPc, mainIdx, dep_future, lock, completed_results,
                   results_snapshot, context, invoked, returned, all_results, ret,
                   rag, sp, oauth, orch, router, parser>>

ChainNext ==
    \/ Submit
    \/ \E i \in StepIds : WaitDependency(i)
    \/ \E i \in StepIds : WaitDependencyRaises(i)
    \/ \E i \in StepIds : AcquireSnapshot(i)
    \/ \E i \in StepIds : InvokeResolver(i)
    \/ GraphRagCalled
    \/ GraphRagRuns
    \/ GraphRagReturns
    \/ GraphRagRaises
    \/ ResolverReturns(1)
    \/ ResolverRaises(1)
    \/ \E i \in StepIds : AcquirePublish(i)
    \/ \E i \in StepIds : FinishStep(i)
    \/ Collect
    \/ Return

ChainSpec == ChainInit /\ [][ChainNext]_vars

\* one call of either resolver
ResolverNext ==
    \/ sp.pc = "idle" /\ RagNext
    \/ rag.pc = "idle" /\ SpotNext
ResolverSpec == SpotInit /\ [][ResolverNext]_vars

\* Orchestrator.query from the router's answer to the returned dict
QueryInit == SchedIdle /\ rag = RagIdle /\ sp = SpIdle /\ oauth = OAuthIdle /\ OthersIdle
QuerySpec == QueryInit /\ [][QueryNext]_vars

\* _build_execution_plan on its own; the loop keeps running while it can
RouterInit == SchedIdle /\ rag = RagIdle /\ sp = SpIdle /\ oauth = OAuthIdle /\ OthersIdle
RouterSpec == RouterInit /\ [][RouterNext]_vars
RouterFairSpec == RouterSpec /\ WF_vars(RouterNext)

\* _enrich_with_spotify_data on its own
ParserInit == SchedIdle /\ rag = RagIdle /\ sp = SpIdle /\ oauth = OAuthIdle /\ OthersIdle
ParserSpec == ParserInit /\ [][ParserNext]_vars

\* ================================================================ properties
Done == mainPc = "returned"

Contains(str, sub) ==
    \E k \in 0..(Len(str) - Len(sub)) : SubSeq(str, k + 1, k + Len(sub)) = sub

\* the resolver of step i returned a Result / raised / was never called because
\* the unit ended in df.result()
ResolverReturned(i) == returned[i] # <<>>
ResolverRaised(i) ==
    /\ pc[i] = "finished" /\ invoked[i] > 0 /\ returned[i] = <<>>
UnitRaised(i) ==
    /\ i \in DOMAIN step_futures /\ step_futures[i].state = "exception"
UnitFinished(i) ==
    /\ i \in DOMAIN step_futures /\ FutureDone(step_futures[i])

\* step i declares a parent with a strictly smaller step index
HasEarlierParent(i) ==
    /\ StepOf(i).depends_on # NoDep
    /\ StepOf(i).depends_on < i
Parent(i) == StepOf(i).depends_on

ResultsFor(i) == { j \in 1..Len(ret) : ret[j].step = i }
ResultFor(i) == ret[CHOOSE j \in ResultsFor(i) : TRUE]

\* C1: when _execute_plan_parallel has returned, the returned list holds exactly
\* one StepResult per step of the plan, carrying the step's index, query and
\* route, whether the resolver succeeded, reported failure or raised.
C1_OneStepResultPerStep ==
    Done => /\ Len(ret) = N
            /\ \A k \in 1..N :
                  /\ Cardinality(ResultsFor(execution_plan[k].step)) = 1
                  /\ ResultFor(execution_plan[k].step).query = execution_plan[k].query
                  /\ ResultFor(execution_plan[k].step).route = execution_plan[k].route

C1_Witness ==
    /\ Done
    /\ \E i, j, k \in StepIds :
          /\ ResolverRaised(i)
          /\ ResolverReturned(j) /\ ~returned[j][1].success
          /\ ResolverReturned(k) /\ returned[k][1].success

\* C2: the resolver of a step that depends on a step with a strictly smaller
\* index is never invoked before the parent's unit of work has finished.
C2_ParentFinishedBeforeResolver ==
    \A i \in StepIds :
        (HasEarlierParent(i) /\ invoked[i] > 0) => UnitFinished(Parent(i))

C2_Witness ==
    \E i \in StepIds :
        /\ HasEarlierParent(i)
        /\ pc[i] = "resolving"
        /\ ResolverReturned(Parent(i))
        /\ ~returned[Parent(i)][1].success

\* C3: when the parent's resolver returned a Result with success = false, the
\* dependent step is not skipped: its resolver is invoked exactly once, with a
\* context that contains the parent's interpretation.
C3_FailedParentStillFeedsDependent ==
    \A i \in StepIds :
        (/\ HasEarlierParent(i)
         /\ ResolverReturned(Parent(i))
         /\ ~returned[Parent(i)][1].success)
        => /\ invoked[i] <= 1
           /\ invoked[i] = 1 =>
                 Contains(context[i], returned[Parent(i)][1].interpretation)
           /\ Done => invoked[i] = 1

C3_Witness ==
    /\ Done
    /\ \E i \in StepIds :
          /\ HasEarlierParent(i)
          /\ ResolverReturned(Parent(i))
          /\ ~returned[Parent(i)][1].success
          /\ invoked[i] = 1
          /\ ResolverReturned(i)

\* C4: when the parent's unit of work ended by raising, the dependent step is
\* still not skipped: its own resolver is invoked and its StepResult is the one
\* built from its own resolver's result.
C4_RaisedParentStillRunsDependent ==
    Done => \A i \in StepIds :
        (HasEarlierParent(i) /\ UnitRaised(Parent(i)))
        => /\ invoked[i] = 1
           /\ ResolverReturned(i) => ResultFor(i) = BuiltStepResult(i)
           /\ ResolverReturned(i) \/ ResolverRaised(i)

\* C5: the call returns one StepResult per step, and each step whose unit
\* raised gets a synthetic StepResult: success = false, empty data, no
\* context_used, and an interpretation carrying the error text.
C5_RaisedUnitGetsSyntheticResult ==
    Done => /\ Len(ret) = N
            /\ \A i \in StepIds :
                  UnitRaised(i) =>
                     /\ ResultFor(i).result.success = FALSE
                     /\ ResultFor(i).result.data = <<>>
                     /\ ResultFor(i).context_used = NoneStr
                     /\ Contains(ResultFor(i).result.interpretation,
                                 step_futures[i].exception)
                     /\ ResultFor(i).step = i

C5_Witness ==
    /\ Done
    /\ \E i \in StepIds : ResolverRaised(i) /\ context[i] # NoneStr

\* the steps that declare i as an ancestor, directly or through other steps
RECURSIVE DependentsWithin(_, _)
DependentsWithin(S, fuel) ==
    IF fuel = 0 THEN S
    ELSE DependentsWithin(S \cup { j \in StepIds : StepOf(j).depends_on \in S }, fuel - 1)
Dependents(i) == DependentsWithin({i}, N) \ {i}
Raisers == { i \in StepIds : ResolverRaised(i) }
Affected == Raisers \cup UNION { Dependents(i) : i \in Raisers }

\* C6: an error raised inside one step's unit leaves every step that does not
\* depend on it untouched: the resolver of such a step is invoked and its
\* StepResult is the one built from its own resolver's return value.
C6_ErrorDoesNotTouchUnrelatedSteps ==
    Done => \A j \in StepIds \ Affected :
               /\ invoked[j] = 1
               /\ ResolverReturned(j)
               /\ ResultFor(j) = BuiltStepResult(j)

C6_Witness ==
    /\ Done
    /\ Raisers # {}
    /\ \E j \in StepIds \ Affected : \E i \in Raisers : i < j
    /\ \E j \in Affected : j \notin Raisers

\* C7: the returned list is sorted by step index ascending, whatever the order
\* in which the units completed.
C7_SortedByStep ==
    Done => \A j \in 1..(Len(ret) - 1) : ret[j].step <= ret[j + 1].step

\* a step whose declared parent is a later step saw that parent's result in
\* its snapshot: the later step finished first
C7_Witness ==
    /\ Done
    /\ \E i \in StepIds :
          /\ StepOf(i).depends_on > i
          /\ context[i] # NoneStr
          /\ ~UnitRaised(i)

\* C8: a unit suspends only on the Future of its own declared parent: as soon
\* as it has none, or that Future is done, it can go on, whatever the other
\* units are doing.
C8_WaitsOnlyForOwnParent ==
    \A i \in StepIds :
        /\ dep_future[i] \in {NoDep, StepOf(i).depends_on}
        /\ (/\ pc[i] = "waiting"
            /\ IF dep_future[i] = NoDep THEN TRUE ELSE UnitFinished(dep_future[i]))
           => ENABLED (WaitDependency(i) \/ WaitDependencyRaises(i))
        /\ pc[i] = "resolving" => ENABLED (ResolverReturns(i) \/ ResolverRaises(i))

\* a step without parent has finished and its dependent is in its resolver
\* while an unrelated step is still in its own resolver
C8_Witness ==
    \E p, c, s \in StepIds :
        /\ StepOf(p).depends_on = NoDep /\ pc[p] = "finished"
        /\ HasEarlierParent(c) /\ Parent(c) = p /\ pc[c] = "resolving"
        /\ s # p /\ s # c /\ StepOf(s).depends_on = NoDep /\ pc[s] = "resolving"

\* C9: the shared map is read and written only by the unit holding the lock,
\* at most one unit holds the lock, no unit holds it while its resolver runs,
\* and a snapshot is the content of the map at the instant it is taken.
LockDiscipline ==
    /\ Cardinality(lock) <= 1
    /\ \A i \in StepIds :
          /\ i \in lock <=> pc[i] \in {"snapshot_locked", "publish_locked"}
          /\ pc[i] = "resolving" => i \notin lock

GuardedAccess ==
    /\ \A i \in StepIds :
          results_snapshot'[i] # results_snapshot[i] =>
             /\ lock' = {i}
             /\ results_snapshot'[i] = completed_results
             /\ completed_results' = completed_results
    /\ completed_results' # completed_results =>
          \E i \in StepIds :
             /\ lock' = {i}
             /\ DOMAIN completed_results' = DOMAIN completed_results \cup {i}
             /\ \A k \in DOMAIN completed_results :
                   k # i => completed_results'[k] = completed_results[k]

C9_MapAccessUnderLock == [](LockDiscipline) /\ [][GuardedAccess]_vars

C9_Witness ==
    \E i, j, k \in StepIds :
        /\ pc[i] = "publish_locked"
        /\ pc[j] = "want_snapshot"
        /\ pc[k] = "resolving"

\* every generation and refinement so far parsed to a non-empty artifact, and
\* every execution so far failed
AllParsedNonEmpty ==
    \A k \in 1..Len(rag.gen_log) : rag.gen_log[k].json /\ rag.gen_log[k].cypher # <<>>
AllExecutionsFailed ==
    \A k \in 1..Len(rag.exec_log) : rag.exec_log[k].failed

\* C10: when every generation parses to a non-empty artifact and every
\* execution fails, one call of GraphRAGAgent.query makes exactly 3 executions
\* against the store and exactly 2 refinement calls, and makes no more.
C10_ThreeExecutionsTwoRefinements ==
    (AllParsedNonEmpty /\ AllExecutionsFailed) =>
        /\ Len(rag.exec_log) <= 3
        /\ rag.refinements <= 2
        /\ rag.pc \in {"interpret_results", "end", "returned"} =>
              /\ Len(rag.exec_log) = 3
              /\ rag.refinements = 2

C10_Witness ==
    /\ rag.pc = "returned"
    /\ AllParsedNonEmpty /\ AllExecutionsFailed
    /\ Len(rag.exec_log) = 3

\* the last execution against the store, and whether it succeeded
LastExec == rag.exec_log[Len(rag.exec_log)]
LastExecSucceeded == rag.exec_log # <<>> /\ ~LastExec.failed

\* C11: when the retry budget is exhausted and the last execution still failed,
\* query returns success = false, empty data, the last error as interpretation
\* and the last artifact as artifact_used.
C11_ExhaustedBudgetReturnsFailure ==
    (rag.pc = "returned" /\ rag.error # NoneStr /\ rag.retry_count >= 2) =>
        /\ rag.out.success = FALSE
        /\ rag.out.data = <<>>
        /\ rag.out.interpretation = rag.error
        /\ rag.out.cypher_used = rag.cypher_query

\* C12: a refinement happens only right after an execution that left an error
\* and only while retry_count < 2; it adds exactly one to retry_count;
\* retry_count never exceeds 2 and at most 3 executions occur per invocation.
RefinementBudget ==
    /\ rag.retry_count <= 2
    /\ rag.executes <= 3
    /\ Len(rag.exec_log) <= 3
    /\ rag.refinements <= rag.retry_count
    /\ rag.pc = "refine_query" =>
          /\ rag.error # NoneStr
          /\ rag.retry_count < 2
          /\ rag.executes = rag.refinements + 1

RefinementStep ==
    (rag'.calls = rag.calls /\ rag'.refinements # rag.refinements) =>
        /\ rag.pc = "refine_query"
        /\ rag'.refinements = rag.refinements + 1
        /\ rag'.retry_count = rag.retry_count + 1
        /\ rag'.pc = "execute_query"

C12_RefinementOnlyAfterErrorWithinBudget == [](RefinementBudget) /\ [][RefinementStep]_vars

C12_Witness ==
    /\ rag.pc = "returned"
    /\ rag.refinements = 2 /\ rag.retry_count = 2 /\ rag.executes = 3

\* C13: once an execution succeeds, no further refinement or execution is made
\* in that invocation, and query returns success = true with that execution's
\* records as data and the executed artifact as artifact_used.
NothingAfterSuccess ==
    (LastExecSucceeded /\ rag'.calls = rag.calls) =>
        /\ rag'.exec_log = rag.exec_log
        /\ rag'.refinements = rag.refinements
        /\ rag'.executes = rag.executes

SuccessIsReturned ==
    (rag.pc = "returned" /\ LastExecSucceeded) =>
        /\ rag.out.success = TRUE
        /\ rag.out.data = LastExec.records
        /\ rag.out.cypher_used = LastExec.cypher

C13_SuccessEndsTheRun == [](SuccessIsReturned) /\ [][NothingAfterSuccess]_vars

C13_Witness ==
    /\ rag.pc = "returned"
    /\ LastExecSucceeded
    /\ Len(rag.exec_log) = 2
    /\ LastExec.records # <<>>

\* C14: an artifact that executes without error and returns zero records
\* yields success = true and an interpretation equal to "No results found.".
C14_ZeroRecordsLiteralInterpretation ==
    (rag.pc = "returned" /\ LastExecSucceeded /\ LastExec.records = <<>>) =>
        /\ rag.out.success = TRUE
        /\ rag.out.interpretation = <<"No results found.">>

\* C14 as amended: such a run yields success = true and empty data; "No
\* results found." is the results section of the interpretation prompt, and
\* the interpretation is whatever text the generator answers to it.
C14_ZeroRecordsPromptSaysNoResults ==
    (rag.pc = "returned" /\ LastExecSucceeded /\ LastExec.records = <<>>) =>
        /\ rag.out.success = TRUE
        /\ rag.out.data = <<>>
        /\ rag.results_str = <<"No results found.">>
        /\ rag.out.interpretation \in Summaries
        /\ rag.interpretations = 1

C14_Witness ==
    /\ rag.pc = "returned"
    /\ LastExecSucceeded /\ LastExec.records = <<>>
    /\ rag.out.interpretation = <<"summary">>

\* C16: every call of query starts with retry_count = 0 and an empty artifact,
\* whatever the earlier call did; two calls with the same context, the same
\* generator answers and the same store answers, whose first execution
\* succeeds, return the same data.
FreshStart ==
    rag.pc = "generate_cypher" =>
        /\ rag.retry_count = 0
        /\ rag.cypher_query = <<>>
        /\ rag.error = NoneStr
        /\ rag.raw_results = <<>>
        /\ rag.result = <<>>

SameAnswersAsBefore ==
    /\ rag.prev # <<>>
    /\ rag.prev[1].context = rag.context
    /\ rag.prev[1].gen_log = rag.gen_log
    /\ rag.prev[1].exec_log = rag.exec_log
    /\ rag.exec_log # <<>>
    /\ ~rag.exec_log[1].failed

C16_NoStateBetweenCalls ==
    /\ FreshStart
    /\ (rag.pc = "returned" /\ SameAnswersAsBefore) =>
          /\ rag.out.data = rag.prev[1].out.data
          /\ rag.out.data = rag.exec_log[1].records
          /\ Len(rag.exec_log) = 1

\* the second call repeats, answer for answer, a first call whose first
\* execution succeeded
C16_Witness ==
    /\ rag.pc = "returned"
    /\ SameAnswersAsBefore
    /\ rag.out.data # <<>>

\* ------------------------------------------------ properties of the action resolver
SpEnded == sp.pc \in {"returned", "raised"}

PlannedExecutions ==
    IF sp.plan_calls = 0 THEN 0 ELSE Len(sp.tool_results) - Len(sp.tools)

IterationsCapped ==
    /\ sp.plan_calls <= MaxFollowups
    /\ sp.iterations <= MaxFollowups
    /\ PlannedExecutions <= MaxFollowups
    /\ PlannedExecutions = sp.iterations
    /\ sp.pc = "plan" => sp.iterations < MaxFollowups
    /\ sp.executions <= MaxItems + 2 * MaxTools + MaxFollowups
    /\ ~SpEnded => ENABLED SpotNext

C17_AtMostTenIterations ==
    [](IterationsCapped) /\ ((sp.pc # "idle") ~> SpEnded)

\* the call returned after 10 planning calls, each of which asked for a tool
C17_Witness ==
    /\ sp.pc = "returned"
    /\ sp.plan_calls = MaxFollowups
    /\ sp.signal = "tool"
    /\ PlannedExecutions = MaxFollowups

\* C18: the planning loop is left only after the generator signalled that
\* nothing more is needed (is_final, or the tool "none") or after its 10th
\* iteration
C18_LoopEndsOnlyOnSignalOrCap ==
    (sp.pc \in {"finish", "returned"} /\ sp.plan_calls > 0) =>
        \/ sp.signal \in {"final", "none"}
        \/ sp.iterations = MaxFollowups

\* C19: a planned tool that fails is appended to the tool results, the loop
\* goes on to its next iteration if it has one, and the planning call of that
\* iteration is made with the failed result among the prior outputs
FailedToolRecorded ==
    (sp.pc = "plan_execute" /\ sp'.pc # "raised") =>
        /\ Len(sp'.tool_results) = Len(sp.tool_results) + 1
        /\ SubSeq(sp'.tool_results, 1, Len(sp.tool_results)) = sp.tool_results
        /\ Last(sp'.tool_results).tool = sp.followup_tools[1].name
        /\ (~Last(sp'.tool_results).success /\ sp'.iterations < MaxFollowups) =>
              sp'.pc = "plan"

AskedAgainWithFailure ==
    (/\ sp.pc = "plan" /\ sp'.pc # "raised"
     /\ sp.iterations > 0 /\ ~Last(sp.tool_results).success) =>
        /\ sp'.plan_calls = sp.plan_calls + 1
        /\ sp'.last_prompt = sp.tool_results

C19_FailedToolDoesNotEndLoop ==
    [][FailedToolRecorded /\ AskedAgainWithFailure]_vars

\* a planning call was made whose prior outputs end with a failed planned tool
C19_Witness ==
    /\ sp.plan_calls >= 2
    /\ sp.last_prompt # <<>>
    /\ Len(sp.last_prompt) > Len(sp.tools)
    /\ ~Last(sp.last_prompt).success
    /\ sp.pc = "plan_execute"

\* C20: the follow-up phase is entered only after an initial batch of
\* search_spotify tools; after any other batch no planning call is made and
\* exactly the selected tools are executed
EnteredFollowup ==
    \/ sp.pc \in {"followup", "plan", "plan_execute"}
    \/ sp.plan_calls > 0
    \/ sp.executions > Len(sp.tools)

InitialBatchAllSearch ==
    \A k \in 1..Len(sp.tools) : sp.tool_results[k].tool = "search_spotify"

C20_FollowupOnlyAfterSearches ==
    sp.select_calls > 0 =>
        /\ EnteredFollowup => InitialBatchAllSearch
        /\ (sp.pc \in {"finish", "returned"} /\ sp.tools # <<>> /\ ~InitialBatchAllSearch) =>
              /\ sp.plan_calls = 0
              /\ sp.executions = Len(sp.tools)
              /\ Len(sp.tool_results) = Len(sp.tools)

\* a batch of a search and another tool was executed and the call returned
C20_Witness ==
    /\ sp.pc = "returned"
    /\ Len(sp.tools) = 2
    /\ sp.tools[1].name = "search_spotify"
    /\ sp.tools[2].name = "add_to_queue"
    /\ sp.tool_results[1].success
    /\ sp.executions = 2

\* the results of the initial batch, and the shortcut computed from them
InitialResults == SubSeq(sp.tool_results, 1, Len(sp.tools))
Shortcut == TryDeterministicFollowup(sp.query, sp.context, InitialResults)
InitialBatchDone ==
    /\ sp.tools # <<>>
    /\ sp.pc \in {"followup", "plan", "plan_execute", "finish", "returned"}
ToolOfResult(r) == ToolCall(r.tool, r.arguments)

\* C21: after an initial batch of searches, a non-empty deterministic
\* follow-up is executed as it is, tool by tool, and no planning call is ever
\* made; an empty one leads to the planning loop, whose first planning call
\* comes before any further tool execution
C21_ShortcutBeforePlanning ==
    (InitialBatchDone /\ OnlySearches(InitialResults)) =>
        IF Shortcut # <<>>
        THEN /\ sp.plan_calls = 0
             /\ sp.pc \in {"followup", "finish", "returned"}
             /\ sp.followup_tools = Shortcut
             /\ Len(sp.tool_results) <= Len(sp.tools) + Len(Shortcut)
             /\ \A k \in 1..(Len(sp.tool_results) - Len(sp.tools)) :
                   ToolOfResult(sp.tool_results[Len(sp.tools) + k]) = Shortcut[k]
             /\ sp.pc \in {"finish", "returned"} =>
                   Len(sp.tool_results) = Len(sp.tools) + Len(Shortcut)
        ELSE /\ sp.pc = "plan" \/ sp.plan_calls >= 1
             /\ sp.plan_calls = 0 => Len(sp.tool_results) = Len(sp.tools)
             /\ sp.pc \in {"finish", "returned"} => sp.plan_calls >= 1

\* two searches found a track each, the request said "queue", and the call
\* returned after the two add_to_queue follow-ups without any planning call
C21_Witness ==
    /\ sp.pc = "returned"
    /\ Len(sp.tools) = 2
    /\ Len(Shortcut) = 2
    /\ sp.plan_calls = 0
    /\ Len(sp.tool_results) = 4
    /\ sp.tool_results[3].tool = "add_to_queue"

\* C22: when the tool selection cannot be parsed, query returns at once a
\* failed Result with no data whose interpretation is the parse error; no tool
\* was executed and the generator was called once
UnparsableSelection == sp.selection # <<>> /\ ~sp.selection.json

C22_UnparsableSelectionFailsAtOnce ==
    UnparsableSelection =>
        /\ sp.pc = "returned"
        /\ sp.out = QueryResult(FALSE, <<>>,
                       <<"Failed to parse tool selection: ">> \o sp.selection.text, NoneStr)
        /\ sp.executions = 0
        /\ sp.tool_results = <<>>
        /\ sp.select_calls = 1
        /\ sp.plan_calls = 0
        /\ ~ENABLED SpotNext

C22_Witness ==
    /\ UnparsableSelection
    /\ sp.pc = "returned"
    /\ ~sp.out.success

\* ------------------------------------------------ further properties of the data resolver
\* the first generation of this call could not be parsed
InitialParseFailed == rag.gen_log # <<>> /\ ~rag.gen_log[1].json

\* C30: after a parse failure of the initial generation the run goes on to a
\* refinement (it never ends without one), the failure has used one unit of
\* the retry budget, and so there is at most one refinement and at most one
\* query sent to the store in that call
C30_InitialParseFailureIsRetryable ==
    InitialParseFailed =>
        /\ rag.retry_count >= 1
        /\ rag.retry_count = 1 + rag.refinements
        /\ rag.refinements <= 1
        /\ Len(rag.exec_log) <= 1
        /\ rag.refinements = 0 => rag.exec_log = <<>>
        /\ rag.pc \in {"interpret_results", "end", "returned"} => rag.refinements = 1
        /\ rag.pc \in {"execute_query", "refine_query"} => ENABLED RagNext

\* the unparsable generation was followed by one refinement whose query failed
\* in the store, and the call returned
C30_Witness ==
    /\ InitialParseFailed
    /\ rag.pc = "returned"
    /\ rag.refinements = 1
    /\ Len(rag.exec_log) = 1
    /\ rag.exec_log[1].failed

\* ------------------------------------------------ properties of the Context Builder
\* the context was built for a step whose parent's result is in the store
BuiltFromParent ==
    /\ mainPc = "context_built"
    /\ execution_plan[2].depends_on = 0
    /\ 0 \in DOMAIN completed_results
ParentData == completed_results[0].result.data
ParentInterpretation == completed_results[0].result.interpretation
IsRecord(t) == \E k \in 1..MaxData + 1 : t = Record(k)
IsHeader(t) == t = "Data ("
RecordsListed(str) == SelectSeq(str, IsRecord)

\* C23: for a parent with n >= 1 records the context is the interpretation,
\* then a header with the total n, then the first min(n, 10) records in
\* order and no other record; with no records it is the interpretation alone
C23_ContextIsInterpretationHeaderAndFirstTen ==
    BuiltFromParent =>
        LET n == Len(ParentData)
            ctx == context[1]
            lead == <<"Previous result: ">> \o ParentInterpretation
        IN /\ SubSeq(ctx, 1, Len(lead)) = lead
           /\ IF n >= 1
              THEN /\ Contains(ctx, <<"Data (", ToString(n), " total items):">>)
                   /\ RecordsListed(ctx) = SubSeq(ParentData, 1, Min(n, 10))
                   /\ Len(RecordsListed(ctx)) = Min(n, 10)
                   /\ Len(ctx) = Len(lead) + 1 + 3 + 1 + 2 + Min(n, 10)
              ELSE ctx = lead

\* a parent with more than 10 records, and its context
C23_Witness ==
    /\ BuiltFromParent
    /\ Len(ParentData) = 11
    /\ Len(RecordsListed(context[1])) = 10
    /\ ParentInterpretation # <<>>

\* C24: for a parent with more than 10 records the context says how many
\* records it leaves out, with a marker "...and <n - 10> more"
OmittedMarker(n) == <<"...and ", ToString(n - 10), " more">>
StatesOmitted(str, n) ==
    \/ Contains(str, OmittedMarker(n))
    \/ \E k \in 1..Len(str) : str[k] = ToString(n - 10) /\ k > 3 + Len(ParentInterpretation)

C24_TruncationStatesOmittedCount ==
    (BuiltFromParent /\ Len(ParentData) > 10) =>
        /\ Len(RecordsListed(context[1])) = 10
        /\ StatesOmitted(context[1], Len(ParentData))

\* ------------------------------------------------ properties of the OAuth handler
\* C27: after revoke_token, whatever calls came before, the handler holds no
\* client and no OAuth manager, and the cache file that manager was using is
\* gone
C27_RevokeRemovesCacheInUse ==
    oauth.last_call = "revoke_token" =>
        /\ oauth.sp = "None"
        /\ oauth.sp_oauth = NoPath
        /\ oauth.manager_in_use # NoPath => oauth.manager_in_use \notin oauth.files

\* ------------------------------------------------ further properties of the scheduler
\* every depends_on of the plan names a strictly smaller step index
PlanWellFormed ==
    \A k \in 1..N :
        execution_plan[k].depends_on # NoDep =>
            execution_plan[k].depends_on < execution_plan[k].step

\* C26: in every plan the router builds, a depends_on names a step of the plan
\* with a strictly smaller index, and that step is the one built from the
\* sub-query depended on
C26_RouterPlanInvariant ==
    \A k \in 1..N :
        LET s == execution_plan[k]
        IN s.depends_on # NoDep =>
              /\ s.depends_on < s.step
              /\ s.depends_on \in StepIds
              /\ StepOf(s.depends_on).query = QueryText(s.depends_on)

\* C28: for a plan whose depends_on values name strictly smaller indices,
\* _execute_plan_parallel returns and every unit has finished by then
AllUnitsFinished == \A i \in StepIds : pc[i] = "finished"

C28_WellFormedPlanTerminates ==
    PlanWellFormed => <>(Done /\ AllUnitsFinished)

\* a chain of MaxSteps steps, each depending on the one before, has returned
C28_Witness ==
    /\ Done
    /\ AllUnitsFinished
    /\ N = MaxSteps
    /\ PlanWellFormed
    /\ \A i \in StepIds : i > 0 => StepOf(i).depends_on = i - 1

\* the unit of step i has taken its snapshot
SnapshotTaken(i) ==
    \/ pc[i] \in {"snapshot_locked", "resolving", "want_publish", "publish_locked"}
    \/ pc[i] = "finished" /\ invoked[i] > 0
FinishedWithoutRaising(i) ==
    i \in DOMAIN step_futures /\ step_futures[i].state = "result"

\* C29: a dependent step whose (earlier) parent finished without raising has
\* the parent's StepResult in its snapshot, its context is present, holds the
\* parent's interpretation and that of no other step; a step without
\* depends_on never has a context
C29_ContextFromOwnParentOnly ==
    \A i \in StepIds :
        /\ (HasEarlierParent(i) /\ SnapshotTaken(i) /\ FinishedWithoutRaising(Parent(i))) =>
              /\ Parent(i) \in DOMAIN results_snapshot[i]
              /\ results_snapshot[i][Parent(i)] = step_futures[Parent(i)].result[1]
              /\ invoked[i] > 0 =>
                    /\ context[i] # NoneStr
                    /\ Contains(context[i], returned[Parent(i)][1].interpretation)
                    /\ \A j \in StepIds \ {Parent(i)} :
                          ResolverReturned(j) =>
                              ~Contains(context[i], returned[j][1].interpretation)
        /\ StepOf(i).depends_on = NoDep => context[i] = NoneStr

\* a step was given its context while its snapshot also held the result of a
\* step that is not its parent
C29_Witness ==
    \E i \in StepIds :
        /\ HasEarlierParent(i)
        /\ invoked[i] = 1
        /\ context[i] # NoneStr
        /\ \E j \in DOMAIN results_snapshot[i] : j # Parent(i) /\ j < Parent(i)

\* ------------------------------------------------ properties of the two-step chain
\* the data step ran its query three times and the store failed each time
Step0Exhausted ==
    /\ rag.pc = "returned"
    /\ Len(rag.exec_log) = 3
    /\ AllExecutionsFailed

\* C25: when step 0 has failed every execution until its refinements were
\* used up, step 1 is still executed, once, and its context holds the last
\* error of step 0 as the interpretation of a failed Result
C25_ExhaustedParentErrorReachesDependent ==
    Step0Exhausted =>
        /\ Done => invoked[1] = 1
        /\ invoked[1] > 0 =>
              /\ ~returned[0][1].success
              /\ Contains(context[1], rag.error)

\* ------------------------------------------------ C32 .. C35
\* the last response of the generator could not be parsed and it was a
\* refinement
LastRefinementUnparsable ==
    /\ Len(rag.gen_log) >= 2
    /\ ~Last(rag.gen_log).json

\* C32: a refinement whose output cannot be parsed leaves the artifact as it
\* was and adds one to the retry counter; the execution that follows sends
\* the artifact of the execution before it to the store again
FailedRefinementKeepsArtifact ==
    (rag.pc = "refine_query" /\ rag'.pc = "execute_query" /\ ~Last(rag'.gen_log).json) =>
        /\ rag'.cypher_query = rag.cypher_query
        /\ rag'.retry_count = rag.retry_count + 1
        /\ rag'.refinements = rag.refinements + 1

SameArtifactRunsAgain ==
    (/\ rag.pc = "execute_query" /\ LastRefinementUnparsable
     /\ Len(rag'.exec_log) = Len(rag.exec_log) + 1 /\ rag.exec_log # <<>>) =>
        Last(rag'.exec_log).cypher = Last(rag.exec_log).cypher

C32_UnparsableRefinementKeepsArtifact ==
    [][FailedRefinementKeepsArtifact /\ SameArtifactRunsAgain]_vars

\* a query failed in the store, its refinement could not be parsed, and the
\* same query was sent to the store a second time
C32_Witness ==
    /\ Len(rag.exec_log) = 2
    /\ Len(rag.gen_log) = 2
    /\ rag.gen_log[1].json
    /\ ~rag.gen_log[2].json
    /\ rag.exec_log[1].failed
    /\ rag.exec_log[2].cypher = rag.exec_log[1].cypher
    /\ rag.retry_count = 1

\* C33: every tool of the selection is executed once, in selection order,
\* whatever the earlier tools of the batch did; the returned data is the list
\* of tool results in execution order and success is the conjunction of
\* their success flags
C33_WholeBatchExecutedInOrder ==
    /\ sp.pc = "execute_initial" =>
          /\ Len(sp.tool_results) = sp.idx - 1
          /\ sp.executions = sp.idx - 1
    /\ InitialBatchDone =>
          /\ Len(sp.tool_results) >= Len(sp.tools)
          /\ \A k \in 1..Len(sp.tools) : ToolOfResult(sp.tool_results[k]) = sp.tools[k]
    /\ sp.pc # "raised" => sp.executions = Len(sp.tool_results)
    /\ (sp.pc = "returned" /\ sp.tools # <<>>) =>
          /\ sp.out.data = sp.tool_results
          /\ Len(sp.out.data) = sp.executions
          /\ sp.out.success <=> \A k \in 1..Len(sp.tool_results) : sp.tool_results[k].success

\* the first tool of a batch of two failed, the second succeeded
C33_Witness ==
    /\ sp.pc = "returned"
    /\ Len(sp.tools) = 2
    /\ Len(sp.tool_results) = 2
    /\ ~sp.tool_results[1].success
    /\ sp.tool_results[2].success
    /\ ~sp.out.success

\* C34: a tool name without handler gives a failed tool result that carries
\* the unknown-tool error, the Result of the call is then a failure, no
\* exception leaves the resolver because of it and the rest of the batch runs
UnknownTools == { k \in 1..Len(sp.tool_results) : sp.tool_results[k].tool \notin Handlers }

C34_UnknownToolIsFailedResult ==
    /\ \A k \in UnknownTools :
          /\ ~sp.tool_results[k].success
          /\ sp.tool_results[k].result = <<"Unknown tool: ", sp.tool_results[k].tool>>
    /\ (sp.pc = "returned" /\ UnknownTools # {}) => ~sp.out.success
    /\ sp.pc = "raised" => sp.exception # "ValueError"
    /\ (InitialBatchDone /\ UnknownTools # {}) => Len(sp.tool_results) >= Len(sp.tools)
    /\ (sp.pc = "execute_initial" /\ UnknownTools # {}) => ENABLED ExecuteInitial

\* an unknown tool came first in a batch of two and the second tool ran
C34_Witness ==
    /\ sp.pc = "returned"
    /\ Len(sp.tools) = 2
    /\ 1 \in UnknownTools
    /\ Len(sp.tool_results) = 2
    /\ sp.tool_results[2].tool = "search_spotify"
    /\ sp.tool_results[2].success

\* C35: with a play or queue keyword in the request and at least one Spotify
\* id in the context, no generator call is made and one action per context
\* item is issued in order: start_playback for the first item if a play
\* keyword is present, add_to_queue otherwise; success is the conjunction of
\* the actions' success flags
FastPathCase ==
    /\ sp.pc # "idle"
    /\ IsPlay(sp.query) \/ IsQueue(sp.query)
    /\ sp.context.ids # <<>>

C35_FastPathOneActionPerItem ==
    FastPathCase =>
        /\ sp.select_calls = 0
        /\ sp.plan_calls = 0
        /\ sp.pc \in {"direct", "returned"}
        /\ Len(sp.tool_results) <= Len(sp.context.ids)
        /\ \A k \in 1..Len(sp.tool_results) :
              /\ sp.tool_results[k].tool =
                    IF IsPlay(sp.query) /\ k = 1 THEN "start_playback" ELSE "add_to_queue"
              /\ sp.tool_results[k].arguments = <<"spotify:track:" \o sp.context.ids[k]>>
        /\ sp.pc = "returned" =>
              /\ Len(sp.tool_results) = Len(sp.context.ids)
              /\ sp.out.data = sp.tool_results
              /\ sp.out.success <=> \A k \in 1..Len(sp.tool_results) : sp.tool_results[k].success

\* "play it" with two ids in the context: played the first, queued the second
C35_Witness ==
    /\ sp.pc = "returned"
    /\ sp.query = <<"play", "it">>
    /\ Len(sp.context.ids) = 2
    /\ sp.tool_results[1].tool = "start_playback"
    /\ sp.tool_results[2].tool = "add_to_queue"
    /\ sp.out.success

\* ------------------------------------------------ C31
\* step i declares a dependency that is not an earlier step of the plan
Misdirected(i) ==
    /\ StepOf(i).depends_on # NoDep
    /\ StepOf(i).depends_on >= i

MisdirectedNeverWaits ==
    \A i \in StepIds :
        Misdirected(i) =>
            /\ dep_future[i] = NoDep
            /\ pc[i] = "waiting" => ENABLED WaitDependency(i)
            /\ ~ENABLED WaitDependencyRaises(i)

OneResultPerStep ==
    /\ Len(ret) = N
    /\ \A i \in StepIds : Cardinality(ResultsFor(i)) = 1

\* C31: a step whose depends_on names itself, a later step or no step holds no
\* Future to wait for, so its unit goes on as soon as it is scheduled, and the
\* plan returns with one StepResult per step
C31_MisdirectedDependencyNeverBlocks ==
    /\ []MisdirectedNeverWaits
    /\ (\E i \in StepIds : Misdirected(i)) => <>(Done /\ AllUnitsFinished /\ OneResultPerStep)

\* a plan of two steps returned: step 0 names the later step, step 1 names no
\* step of the plan
C31_Witness ==
    /\ Done
    /\ N = 2
    /\ StepOf(0).depends_on = 1
    /\ StepOf(1).depends_on = 2
    /\ OneResultPerStep
    /\ \A i \in StepIds : ResolverReturned(i)

\* ------------------------------------------------ C36 .. C38
\* C36: with an empty plan from the router, query returns success = false and
\* no step results, and neither the scheduler nor a resolver nor the
\* synthesizer has been called
C36_EmptyPlanReturnsFailureAtOnce ==
    (orch.pc = "returned" /\ orch.execution_plan = <<>>) =>
        /\ orch.out.success = FALSE
        /\ orch.out.details.step_results = <<>>
        /\ orch.out.details.execution_plan = <<>>
        /\ orch.scheduled = 0
        /\ orch.synthesized = 0
        /\ mainPc = "idle"
        /\ invoked = EmptyDict
        /\ rag.pc = "idle" /\ sp.pc = "idle"

\* the router was asked once, gave no plan, and query has returned
C36_Witness ==
    /\ orch.pc = "returned"
    /\ orch.routed = 1
    /\ orch.execution_plan = <<>>
    /\ orch.out.details.step_results = <<>>

\* C37: _build_execution_plan returns for every list of sub-queries
C37_BuildExecutionPlanTerminates == <>(router.pc = "returned")

\* C38: the list returned holds one item per input item with a track id, in
\* input order
TrackedInput == SelectSeq(parser.filtered_data, LAMBDA item : item.track_id # NoTrack)

C38_OneItemPerTrackedInput ==
    parser.pc = "returned" =>
        /\ Len(parser.out) = Len(TrackedInput)
        /\ \A k \in 1..Len(TrackedInput) :
              /\ parser.out[k].ts = TrackedInput[k].ts
              /\ parser.out[k].trackId = TrackedInput[k].track_id

====
